---- MODULE Spec2Model ----
(***************************************************************************)
(* A model of transpiler.py: the module-level lexer and parser objects,    *)
(* the grammar's reductions, the code generator and transpile().           *)
(*                                                                         *)
(* Text is a sequence of one-character strings, so that scanning, number   *)
(* conversion and the layout of the generated text are computed character  *)
(* by character.                                                           *)
(***************************************************************************)
EXTENDS Integers, Sequences, FiniteSets, TLC

VARIABLES lexer, parser, ast, result, prev

vars == <<lexer, parser, ast, result, prev>>

----------------------------------------------------------------------------
(* Characters and text                                                     *)

Lower == {"a","b","c","d","e","f","g","h","i","j","k","l","m",
          "n","o","p","q","r","s","t","u","v","w","x","y","z"}

Upper == {"A","B","C","D","E","F","G","H","I","J","K","L","M",
          "N","O","P","Q","R","S","T","U","V","W","X","Y","Z"}

Digit == {"0","1","2","3","4","5","6","7","8","9"}

\* [a-zA-Z_]
IdentStart == Lower \cup Upper \cup {"_"}

\* [a-zA-Z0-9_], which is also \w on the characters of the model
WordChar == IdentStart \cup Digit

\* \s
SpaceChar == {" ", "\t", "\n", "\r", "\f"}

DigitVal == ("0" :> 0) @@ ("1" :> 1) @@ ("2" :> 2) @@ ("3" :> 3) @@ ("4" :> 4) @@
            ("5" :> 5) @@ ("6" :> 6) @@ ("7" :> 7) @@ ("8" :> 8) @@ ("9" :> 9)

DigitChar == <<"0","1","2","3","4","5","6","7","8","9">>

\* The text as one string (to compare it with a keyword or a written text).
RECURSIVE Str(_)
Str(s) == IF s = <<>> THEN "" ELSE Head(s) \o Str(Tail(s))

\* Whether text lit occurs in d at 0-based offset i.
StartsWith(d, i, lit) ==
    /\ i + Len(lit) <= Len(d)
    /\ \A k \in 1..Len(lit) : d[i + k] = lit[k]

\* The end (0-based, exclusive) of the longest run of characters of S from i.
RECURSIVE Span(_, _, _)
Span(d, i, S) == IF i < Len(d) /\ d[i + 1] \in S THEN Span(d, i + 1, S) ELSE i

\* The 0-based offset of the first occurrence of lit at or after i that is
\* reached over characters of Over only, or -1.
RECURSIVE Find(_, _, _, _)
Find(d, i, lit, Over) ==
    IF StartsWith(d, i, lit) THEN i
    ELSE IF i < Len(d) /\ d[i + 1] \in Over THEN Find(d, i + 1, lit, Over)
    ELSE -1

\* Every character of the model's alphabet.
AnyChar == WordChar \cup SpaceChar \cup
           {"(", ")", "{", "}", ";", ",", "=", "+", "-", "*", "/", "<", ">",
            "&", "|", "!", ":", "[", "]", "\"", "#", "@", ".", "'", "$", "%"}

----------------------------------------------------------------------------
(* Python values: str, int, float and None                                 *)

StrV(s) == [k |-> "str", s |-> s]

IntV(n) == [k |-> "int", n |-> n]

FloatV(ip, frac) == [k |-> "float", ip |-> ip, frac |-> frac]

NoneV == [k |-> "none"]

\* int(text) of a run of decimal digits
RECURSIVE int(_)
int(s) == IF s = <<>> THEN 0 ELSE int(SubSeq(s, 1, Len(s) - 1)) * 10 + DigitVal[s[Len(s)]]

RECURSIVE StripTrailingZeros(_)
StripTrailingZeros(s) ==
    IF s # <<>> /\ s[Len(s)] = "0" THEN StripTrailingZeros(SubSeq(s, 1, Len(s) - 1)) ELSE s

\* float(text) of digits "." digits: the integer part and the fraction's
\* digits without the trailing zeros, which the value does not keep.
float(s) ==
    LET dot == Find(s, 0, <<".">>, Digit)
    IN FloatV(int(SubSeq(s, 1, dot)), StripTrailingZeros(SubSeq(s, dot + 2, Len(s))))

\* str(n) of an int n >= 0
RECURSIVE IntStr(_)
IntStr(n) == IF n < 10 THEN <<DigitChar[n + 1]>>
             ELSE IntStr(n \div 10) \o <<DigitChar[(n % 10) + 1]>>

\* str(x) of a float 0 <= x < 1e16 written with fewer than 16 digits: fixed
\* notation from 0.0001 up, exponent notation below it.
FloatStr(v) ==
    LET lead == Span(v.frac, 0, {"0"})
        mant == SubSeq(v.frac, lead + 1, Len(v.frac))
        exp  == lead + 1
    IN IF v.ip = 0 /\ v.frac # <<>> /\ lead >= 4
       THEN <<mant[1]>> \o (IF Len(mant) > 1 THEN <<".">> \o Tail(mant) ELSE <<>>)
            \o <<"e", "-">> \o (IF exp < 10 THEN <<"0">> ELSE <<>>) \o IntStr(exp)
       ELSE IntStr(v.ip) \o <<".">> \o (IF v.frac = <<>> THEN <<"0">> ELSE v.frac)

\* str(v)
str(v) ==
    CASE v.k = "str"   -> v.s
      [] v.k = "int"   -> IntStr(v.n)
      [] v.k = "float" -> FloatStr(v)
      [] v.k = "none"  -> <<"N","o","n","e">>

----------------------------------------------------------------------------
(* The lexer                                                               *)

\* The token rules given as plain strings, in the order of the master
\* pattern: by decreasing length of the written pattern, and in the order of
\* definition among patterns of one length.
PunctRules ==
    << [type |-> "OR",        lit |-> <<"|", "|">>],
       [type |-> "PLUSPLUS",  lit |-> <<"+", "+">>],
       [type |-> "LPAREN",    lit |-> <<"(">>],
       [type |-> "RPAREN",    lit |-> <<")">>],
       [type |-> "LBRACE",    lit |-> <<"{">>],
       [type |-> "RBRACE",    lit |-> <<"}">>],
       [type |-> "PLUS",      lit |-> <<"+">>],
       [type |-> "MULTIPLY",  lit |-> <<"*">>],
       [type |-> "AND",       lit |-> <<"&", "&">>],
       [type |-> "ARROW",     lit |-> <<"-", ">">>],
       [type |-> "LBRACKET",  lit |-> <<"[">>],
       [type |-> "RBRACKET",  lit |-> <<"]">>],
       [type |-> "SEMICOLON", lit |-> <<";">>],
       [type |-> "COMMA",     lit |-> <<",">>],
       [type |-> "EQUALS",    lit |-> <<"=">>],
       [type |-> "MINUS",     lit |-> <<"-">>],
       [type |-> "DIVIDE",    lit |-> <<"/">>],
       [type |-> "LT",        lit |-> <<"<">>],
       [type |-> "GT",        lit |-> <<">">>],
       [type |-> "NOT",       lit |-> <<"!">>],
       [type |-> "COLON",     lit |-> <<":">>] >>

reserved ==
    ("int" :> "INT") @@ ("float" :> "FLOAT") @@ ("class" :> "CLASS") @@
    ("if" :> "IF") @@ ("else" :> "ELSE") @@ ("for" :> "FOR") @@
    ("while" :> "WHILE") @@ ("return" :> "RETURN") @@ ("cout" :> "COUT") @@
    ("endl" :> "ENDL") @@ ("include" :> "INCLUDE") @@ ("string" :> "STRING_H") @@
    ("iostream" :> "IOSTREAM") @@ ("namespace" :> "NAMESPACE") @@ ("std" :> "STD")

t_ignore == {" ", "\t"}

\* Each Match operator gives the end (0-based, exclusive) of the rule's match
\* at offset i of d, or -1.

\* [a-zA-Z_][a-zA-Z0-9_]*
\* name = val, and then the rest of the function with the name bound.
With(val, Rest(_)) == Rest(val)

MatchIDENTIFIER(d, i) ==
    IF d[i + 1] \in IdentStart THEN Span(d, i + 1, WordChar) ELSE -1

\* \d+(\.\d+)?
MatchNUMBER(d, i) ==
    IF d[i + 1] \notin Digit THEN -1
    ELSE LET e == Span(d, i, Digit)
         IN IF StartsWith(d, e, <<".">>) /\ e + 1 < Len(d) /\ d[e + 2] \in Digit
            THEN Span(d, e + 1, Digit)
            ELSE e

\* \n+
MatchNewline(d, i) ==
    IF d[i + 1] = "\n" THEN Span(d, i, {"\n"}) ELSE -1

\* \#include\s*<\w+>
MatchINCLUDE(d, i) ==
    IF ~StartsWith(d, i, <<"#", "i", "n", "c", "l", "u", "d", "e">>) THEN -1
    ELSE LET lt == Span(d, i + 8, SpaceChar)
             gt == Span(d, lt + 1, WordChar)
         IN IF StartsWith(d, lt, <<"<">>) /\ gt > lt + 1 /\ StartsWith(d, gt, <<">">>)
            THEN gt + 1
            ELSE -1

\* //.*|/\*.*?\*/   (the dot matches no newline)
MatchCOMMENT(d, i) ==
    IF StartsWith(d, i, <<"/", "/">>) THEN Span(d, i + 2, AnyChar \ {"\n"})
    ELSE IF StartsWith(d, i, <<"/", "*">>)
         THEN LET close == Find(d, i + 2, <<"*", "/">>, AnyChar \ {"\n"})
              IN IF close >= 0 THEN close + 2 ELSE -1
         ELSE -1

\* "[^"]*"
MatchSTRING(d, i) ==
    IF d[i + 1] # "\"" THEN -1
    ELSE LET close == Find(d, i + 1, <<"\"">>, AnyChar \ {"\""})
         IN IF close >= 0 THEN close + 1 ELSE -1

\* The first plain-string rule that matches at i, or 0.
MatchPunct(d, i) ==
    LET hits == {r \in 1..Len(PunctRules) : StartsWith(d, i, PunctRules[r].lit)}
    IN IF hits = {} THEN 0 ELSE CHOOSE r \in hits : \A q \in hits : r <= q

\* The master pattern: the function rules in the order of their definition,
\* then the string rules; the first alternative that matches wins.
MasterMatch(d, i) ==
    CASE MatchIDENTIFIER(d, i) >= 0 -> [rule |-> "t_IDENTIFIER", end |-> MatchIDENTIFIER(d, i)]
      [] MatchNUMBER(d, i) >= 0     -> [rule |-> "t_NUMBER", end |-> MatchNUMBER(d, i)]
      [] MatchNewline(d, i) >= 0    -> [rule |-> "t_newline", end |-> MatchNewline(d, i)]
      [] MatchINCLUDE(d, i) >= 0    -> [rule |-> "t_INCLUDE", end |-> MatchINCLUDE(d, i)]
      [] MatchCOMMENT(d, i) >= 0    -> [rule |-> "t_ignore_COMMENT", end |-> MatchCOMMENT(d, i)]
      [] MatchSTRING(d, i) >= 0     -> [rule |-> "t_STRING", end |-> MatchSTRING(d, i)]
      [] MatchPunct(d, i) > 0       ->
            [rule |-> PunctRules[MatchPunct(d, i)].type,
             end  |-> i + Len(PunctRules[MatchPunct(d, i)].lit)]
      [] OTHER                      -> [rule |-> "none", end |-> i]

LexToken(type, value, lineno, lexpos) ==
    [type |-> type, value |-> value, lineno |-> lineno, lexpos |-> lexpos]

\* What the parser reads at the end of the input.
EndToken == LexToken("$end", NoneV, 0, 0)

\* A raised SyntaxError, which travels up to transpile's handler.
SyntaxError(msg, lineno, lexpos) == LexToken("SyntaxError", StrV(msg), lineno, lexpos)

t_IDENTIFIER(text, lineno, lexpos) ==
    LexToken(IF Str(text) \in DOMAIN reserved THEN reserved[Str(text)] ELSE "IDENTIFIER",
             StrV(text), lineno, lexpos)

t_NUMBER(text, lineno, lexpos) ==
    LexToken("NUMBER",
             IF \E k \in 1..Len(text) : text[k] = "." THEN float(text) ELSE IntV(int(text)),
             lineno, lexpos)

\* t.lexer.lineno += len(t.value)
t_newline(lx, end) ==
    [lx EXCEPT !.lexpos = end, !.lineno = @ + (end - lx.lexpos)]

t_error(lx) ==
    SyntaxError(<<"I","l","l","e","g","a","l"," ","c","h","a","r","a","c","t","e","r"," ","'">>
                \o <<lx.lexdata[lx.lexpos + 1]>>
                \o <<"'"," ","a","t"," ","l","i","n","e"," ">> \o IntStr(lx.lineno),
                lx.lineno, lx.lexpos)

\* A lexer.input that replaces the text and leaves the position where the
\* last call stopped: the variant C2_SameAsFreshModule has to tell from the
\* code's.
lexer_input_keeping_lexpos(lx, s) == [lx EXCEPT !.lexdata = s]

\* lexer.input(s): the text and the position are replaced; the line counter
\* is left as it is.
lexer_input(lx, s) == [lx EXCEPT !.lexdata = s, !.lexpos = 0]

\* lexer.token(): the next token and the lexer after it.
RECURSIVE token(_)
token(lx) ==
    LET d == lx.lexdata
        i == lx.lexpos
    IN IF i >= Len(d) THEN [tok |-> EndToken, lexer |-> [lx EXCEPT !.lexpos = i + 1]]
       ELSE IF d[i + 1] \in t_ignore THEN token([lx EXCEPT !.lexpos = i + 1])
       ELSE With(MasterMatch(d, i), LAMBDA m :
            With(SubSeq(d, i + 1, m.end), LAMBDA text :
            With([lx EXCEPT !.lexpos = m.end], LAMBDA done :
               CASE m.rule = "t_IDENTIFIER" ->
                      [tok |-> t_IDENTIFIER(text, lx.lineno, i), lexer |-> done]
                 [] m.rule = "t_NUMBER" ->
                      [tok |-> t_NUMBER(text, lx.lineno, i), lexer |-> done]
                 [] m.rule = "t_newline" -> token(t_newline(lx, m.end))
                 [] m.rule = "t_ignore_COMMENT" -> token(done)
                 [] m.rule = "t_INCLUDE" ->
                      [tok |-> LexToken("INCLUDE", StrV(text), lx.lineno, i), lexer |-> done]
                 [] m.rule = "t_STRING" ->
                      [tok |-> LexToken("STRING", StrV(text), lx.lineno, i), lexer |-> done]
                 [] m.rule = "none" -> [tok |-> t_error(lx), lexer |-> lx]
                 [] OTHER ->
                      [tok |-> LexToken(m.rule, StrV(text), lx.lineno, i), lexer |-> done])))

----------------------------------------------------------------------------
(* The grammar and its reductions                                          *)

tokens ==
    {"IDENTIFIER", "NUMBER", "STRING", "INT", "FLOAT", "CLASS", "IF", "ELSE", "FOR", "WHILE",
     "RETURN", "COUT", "ENDL", "LPAREN", "RPAREN", "LBRACE", "RBRACE", "SEMICOLON", "COMMA",
     "EQUALS", "PLUS", "MINUS", "MULTIPLY", "DIVIDE", "LT", "GT", "AND", "OR", "NOT",
     "COLON", "ARROW", "LBRACKET", "RBRACKET", "INCLUDE", "STRING_H", "IOSTREAM", "NAMESPACE",
     "STD", "PLUSPLUS"}

\* Lowest level first.
precedence ==
    << [assoc |-> "left",  terms |-> {"PLUS", "MINUS"}],
       [assoc |-> "left",  terms |-> {"MULTIPLY", "DIVIDE"}],
       [assoc |-> "right", terms |-> {"PLUSPLUS"}] >>

\* Node(type, children, value); children or [] is the empty sequence here.
Node(type, children, value) == [type |-> type, children |-> children, value |-> value]

\* In the reductions p is the sequence p[1], p[2], ... of the right-hand
\* side's values, so that len(p) of the source is Len(p) + 1.

p_program(p) ==
    IF Len(p) + 1 = 3 THEN Node("program", <<p[2]>>, NoneV)
    ELSE Node("program", <<p[1]>>, NoneV)

p_includes(p) ==
    IF Len(p) + 1 = 2 THEN Node("includes", <<p[1]>>, NoneV)
    ELSE [p[1] EXCEPT !.children = Append(@, p[2])]

p_statements(p) ==
    IF Len(p) + 1 = 2 THEN Node("statements", <<p[1]>>, NoneV)
    ELSE [p[1] EXCEPT !.children = Append(@, p[2])]

p_statement(p) == p[1]

p_include(p) == Node("include", <<>>, p[1])

p_declaration(p) ==
    IF Len(p) + 1 = 6 THEN Node("declaration", <<p[4]>>, p[2])
    ELSE Node("declaration", <<>>, p[2])

p_assignment(p) == Node("assignment", <<p[3]>>, p[1])

p_increment(p) == Node("increment", <<>>, p[1])

p_if_stmt(p) ==
    Node("if", <<p[3], p[6]>> \o (IF Len(p) + 1 > 8 THEN <<p[10]>> ELSE <<>>), NoneV)

p_for_stmt(p) == Node("for", <<p[6], p[8], p[14]>>, p[4])

p_while_stmt(p) == Node("while", <<p[3], p[6]>>, NoneV)

p_function_def(p) == Node("function", <<p[4], p[7]>>, p[2])

p_params(p) ==
    IF Len(p) + 1 = 2 /\ p[1] # NoneV THEN Node("params", <<p[1]>>, NoneV)
    ELSE IF Len(p) + 1 = 4 THEN Node("params", p[1].children \o <<p[3]>>, NoneV)
    ELSE Node("params", <<>>, NoneV)

p_param(p) == Node("param", <<>>, p[2])

p_class_def(p) == Node("class", <<p[4]>>, p[2])

\* A reduction of the field list that keeps the last field only: the
\* variant C7_ClassFieldsZero has to tell from the code's.
p_declarations_last_only(p) ==
    IF Len(p) + 1 = 2 THEN Node("declarations", <<p[1]>>, NoneV)
    ELSE IF Len(p) + 1 = 3 THEN [p[1] EXCEPT !.children = <<p[2]>>]
    ELSE IF Len(p) + 1 = 4
         THEN Node("declarations", <<Node("declaration", <<>>, p[2])>>, NoneV)
    ELSE [p[1] EXCEPT !.children = <<Node("declaration", <<>>, p[3])>>]

p_declarations(p) ==
    IF Len(p) + 1 = 2 THEN Node("declarations", <<p[1]>>, NoneV)
    ELSE IF Len(p) + 1 = 3 THEN [p[1] EXCEPT !.children = Append(@, p[2])]
    ELSE IF Len(p) + 1 = 4
         THEN Node("declarations", <<Node("declaration", <<>>, p[2])>>, NoneV)
    ELSE [p[1] EXCEPT !.children = Append(@, Node("declaration", <<>>, p[3]))]

p_output(p) ==
    Node("output", <<p[4]>>,
         IF Len(p) + 1 > 6 THEN StrV(<<"e", "n", "d", "l">>) ELSE StrV(<<>>))

p_return_stmt(p) == Node("return", <<p[2]>>, NoneV)

p_expression(p) ==
    IF Len(p) + 1 = 4 THEN Node("binop", <<p[1], p[3]>>, p[2])
    ELSE IF Len(p) + 1 = 3 THEN Node("unop", <<p[2]>>, p[1])
    ELSE Node("literal", <<>>, p[1])

p_empty(p) == NoneV

\* The reduction function of a production, applied.
Callable(func, p) ==
    CASE func = "p_program"      -> p_program(p)
      [] func = "p_includes"     -> p_includes(p)
      [] func = "p_statements"   -> p_statements(p)
      [] func = "p_statement"    -> p_statement(p)
      [] func = "p_include"      -> p_include(p)
      [] func = "p_declaration"  -> p_declaration(p)
      [] func = "p_assignment"   -> p_assignment(p)
      [] func = "p_increment"    -> p_increment(p)
      [] func = "p_if_stmt"      -> p_if_stmt(p)
      [] func = "p_for_stmt"     -> p_for_stmt(p)
      [] func = "p_while_stmt"   -> p_while_stmt(p)
      [] func = "p_function_def" -> p_function_def(p)
      [] func = "p_params"       -> p_params(p)
      [] func = "p_param"        -> p_param(p)
      [] func = "p_class_def"    -> p_class_def(p)
      [] func = "p_declarations" -> p_declarations(p)
      [] func = "p_output"       -> p_output(p)
      [] func = "p_return_stmt"  -> p_return_stmt(p)
      [] func = "p_expression"   -> p_expression(p)
      [] func = "p_empty"        -> p_empty(p)

\* The productions of the rule functions' documentation strings, in the
\* order of the file; line is the line of the production.
Productions ==
    <<
       (*  1 *) [name |-> "program", func |-> "p_program", line |-> 91,
                 syms |-> <<"includes", "statements">>],
       (*  2 *) [name |-> "program", func |-> "p_program", line |-> 92,
                 syms |-> <<"statements">>],
       (*  3 *) [name |-> "includes", func |-> "p_includes", line |-> 99,
                 syms |-> <<"include">>],
       (*  4 *) [name |-> "includes", func |-> "p_includes", line |-> 100,
                 syms |-> <<"includes", "include">>],
       (*  5 *) [name |-> "statements", func |-> "p_statements", line |-> 108,
                 syms |-> <<"statement">>],
       (*  6 *) [name |-> "statements", func |-> "p_statements", line |-> 109,
                 syms |-> <<"statements", "statement">>],
       (*  7 *) [name |-> "statement", func |-> "p_statement", line |-> 117,
                 syms |-> <<"declaration">>],
       (*  8 *) [name |-> "statement", func |-> "p_statement", line |-> 118,
                 syms |-> <<"assignment">>],
       (*  9 *) [name |-> "statement", func |-> "p_statement", line |-> 119,
                 syms |-> <<"increment">>],
       (* 10 *) [name |-> "statement", func |-> "p_statement", line |-> 120,
                 syms |-> <<"if_stmt">>],
       (* 11 *) [name |-> "statement", func |-> "p_statement", line |-> 121,
                 syms |-> <<"for_stmt">>],
       (* 12 *) [name |-> "statement", func |-> "p_statement", line |-> 122,
                 syms |-> <<"while_stmt">>],
       (* 13 *) [name |-> "statement", func |-> "p_statement", line |-> 123,
                 syms |-> <<"function_def">>],
       (* 14 *) [name |-> "statement", func |-> "p_statement", line |-> 124,
                 syms |-> <<"class_def">>],
       (* 15 *) [name |-> "statement", func |-> "p_statement", line |-> 125,
                 syms |-> <<"output">>],
       (* 16 *) [name |-> "statement", func |-> "p_statement", line |-> 126,
                 syms |-> <<"return_stmt">>],
       (* 17 *) [name |-> "include", func |-> "p_include", line |-> 130,
                 syms |-> <<"INCLUDE">>],
       (* 18 *) [name |-> "declaration", func |-> "p_declaration", line |-> 134,
                 syms |-> <<"INT", "IDENTIFIER", "EQUALS", "expression", "SEMICOLON">>],
       (* 19 *) [name |-> "declaration", func |-> "p_declaration", line |-> 135,
                 syms |-> <<"FLOAT", "IDENTIFIER", "EQUALS", "expression", "SEMICOLON">>],
       (* 20 *) [name |-> "declaration", func |-> "p_declaration", line |-> 136,
                 syms |-> <<"INT", "IDENTIFIER", "SEMICOLON">>],
       (* 21 *) [name |-> "assignment", func |-> "p_assignment", line |-> 143,
                 syms |-> <<"IDENTIFIER", "EQUALS", "expression", "SEMICOLON">>],
       (* 22 *) [name |-> "increment", func |-> "p_increment", line |-> 147,
                 syms |-> <<"IDENTIFIER", "PLUSPLUS", "SEMICOLON">>],
       (* 23 *) [name |-> "if_stmt", func |-> "p_if_stmt", line |-> 151,
                 syms |-> <<"IF", "LPAREN", "expression", "RPAREN", "LBRACE", "statements", "RBRACE">>],
       (* 24 *) [name |-> "if_stmt", func |-> "p_if_stmt", line |-> 152,
                 syms |-> <<"IF", "LPAREN", "expression", "RPAREN", "LBRACE", "statements",
                            "RBRACE", "ELSE", "LBRACE", "statements", "RBRACE">>],
       (* 25 *) [name |-> "for_stmt", func |-> "p_for_stmt", line |-> 157,
                 syms |-> <<"FOR", "LPAREN", "INT", "IDENTIFIER", "EQUALS", "expression",
                            "SEMICOLON", "expression", "SEMICOLON", "IDENTIFIER", "PLUSPLUS",
                            "RPAREN", "LBRACE", "statements", "RBRACE">>],
       (* 26 *) [name |-> "while_stmt", func |-> "p_while_stmt", line |-> 161,
                 syms |-> <<"WHILE", "LPAREN", "expression", "RPAREN", "LBRACE", "statements",
                            "RBRACE">>],
       (* 27 *) [name |-> "function_def", func |-> "p_function_def", line |-> 165,
                 syms |-> <<"INT", "IDENTIFIER", "LPAREN", "params", "RPAREN", "LBRACE",
                            "statements", "RBRACE">>],
       (* 28 *) [name |-> "params", func |-> "p_params", line |-> 169,
                 syms |-> <<"param">>],
       (* 29 *) [name |-> "params", func |-> "p_params", line |-> 170,
                 syms |-> <<"params", "COMMA", "param">>],
       (* 30 *) [name |-> "params", func |-> "p_params", line |-> 171,
                 syms |-> <<"empty">>],
       (* 31 *) [name |-> "param", func |-> "p_param", line |-> 180,
                 syms |-> <<"INT", "IDENTIFIER">>],
       (* 32 *) [name |-> "class_def", func |-> "p_class_def", line |-> 184,
                 syms |-> <<"CLASS", "IDENTIFIER", "LBRACE", "declarations", "RBRACE", "SEMICOLON">>],
       (* 33 *) [name |-> "declarations", func |-> "p_declarations", line |-> 188,
                 syms |-> <<"declaration">>],
       (* 34 *) [name |-> "declarations", func |-> "p_declarations", line |-> 189,
                 syms |-> <<"declarations", "declaration">>],
       (* 35 *) [name |-> "declarations", func |-> "p_declarations", line |-> 190,
                 syms |-> <<"INT", "IDENTIFIER", "SEMICOLON">>],
       (* 36 *) [name |-> "declarations", func |-> "p_declarations", line |-> 191,
                 syms |-> <<"declarations", "INT", "IDENTIFIER", "SEMICOLON">>],
       (* 37 *) [name |-> "output", func |-> "p_output", line |-> 204,
                 syms |-> <<"COUT", "LT", "LT", "expression", "SEMICOLON">>],
       (* 38 *) [name |-> "output", func |-> "p_output", line |-> 205,
                 syms |-> <<"COUT", "LT", "LT", "expression", "LT", "LT", "ENDL", "SEMICOLON">>],
       (* 39 *) [name |-> "return_stmt", func |-> "p_return_stmt", line |-> 209,
                 syms |-> <<"RETURN", "expression", "SEMICOLON">>],
       (* 40 *) [name |-> "expression", func |-> "p_expression", line |-> 213,
                 syms |-> <<"expression", "PLUS", "expression">>],
       (* 41 *) [name |-> "expression", func |-> "p_expression", line |-> 214,
                 syms |-> <<"expression", "MINUS", "expression">>],
       (* 42 *) [name |-> "expression", func |-> "p_expression", line |-> 215,
                 syms |-> <<"expression", "MULTIPLY", "expression">>],
       (* 43 *) [name |-> "expression", func |-> "p_expression", line |-> 216,
                 syms |-> <<"expression", "DIVIDE", "expression">>],
       (* 44 *) [name |-> "expression", func |-> "p_expression", line |-> 217,
                 syms |-> <<"expression", "LT", "expression">>],
       (* 45 *) [name |-> "expression", func |-> "p_expression", line |-> 218,
                 syms |-> <<"expression", "GT", "expression">>],
       (* 46 *) [name |-> "expression", func |-> "p_expression", line |-> 219,
                 syms |-> <<"expression", "AND", "expression">>],
       (* 47 *) [name |-> "expression", func |-> "p_expression", line |-> 220,
                 syms |-> <<"expression", "OR", "expression">>],
       (* 48 *) [name |-> "expression", func |-> "p_expression", line |-> 221,
                 syms |-> <<"NOT", "expression">>],
       (* 49 *) [name |-> "expression", func |-> "p_expression", line |-> 222,
                 syms |-> <<"NUMBER">>],
       (* 50 *) [name |-> "expression", func |-> "p_expression", line |-> 223,
                 syms |-> <<"IDENTIFIER">>],
       (* 51 *) [name |-> "expression", func |-> "p_expression", line |-> 224,
                 syms |-> <<"STRING">>],
       (* 52 *) [name |-> "empty", func |-> "p_empty", line |-> 233,
                 syms |-> <<>>]
    >>

----------------------------------------------------------------------------
(* The parser that yacc.yacc() builds from the grammar                     *)

\* The LALR(1) automaton of Productions, with state 1 the initial state:
\* LRGoto[s] is the state entered from s over a symbol, and LRReduce[s] the
\* productions complete in s, each with its lookahead set (production 0 is
\* the start production, program followed by the end of the input).
\* Conflicts are still in these tables; Action resolves them.
LRGoto ==
    <<
       (*   1 *) ("CLASS" :> 13) @@ ("COUT" :> 15) @@ ("FLOAT" :> 5) @@ ("FOR" :> 9) @@
                 ("IDENTIFIER" :> 2) @@ ("IF" :> 18) @@ ("INCLUDE" :> 11) @@ ("INT" :> 10) @@
                 ("RETURN" :> 23) @@ ("WHILE" :> 14) @@ ("assignment" :> 25) @@
                 ("class_def" :> 4) @@ ("declaration" :> 6) @@ ("for_stmt" :> 16) @@
                 ("function_def" :> 22) @@ ("if_stmt" :> 17) @@ ("include" :> 20) @@
                 ("includes" :> 7) @@ ("increment" :> 24) @@ ("output" :> 19) @@
                 ("program" :> 26) @@ ("return_stmt" :> 21) @@ ("statement" :> 12) @@
                 ("statements" :> 3) @@ ("while_stmt" :> 8),
       (*   2 *) ("EQUALS" :> 27) @@ ("PLUSPLUS" :> 28),
       (*   3 *) ("CLASS" :> 13) @@ ("COUT" :> 15) @@ ("FLOAT" :> 5) @@ ("FOR" :> 9) @@
                 ("IDENTIFIER" :> 2) @@ ("IF" :> 18) @@ ("INT" :> 10) @@ ("RETURN" :> 23) @@
                 ("WHILE" :> 14) @@ ("assignment" :> 25) @@ ("class_def" :> 4) @@
                 ("declaration" :> 6) @@ ("for_stmt" :> 16) @@ ("function_def" :> 22) @@
                 ("if_stmt" :> 17) @@ ("increment" :> 24) @@ ("output" :> 19) @@
                 ("return_stmt" :> 21) @@ ("statement" :> 29) @@ ("while_stmt" :> 8),
       (*   4 *) [x \in {} |-> 0],
       (*   5 *) ("IDENTIFIER" :> 30),
       (*   6 *) [x \in {} |-> 0],
       (*   7 *) ("CLASS" :> 13) @@ ("COUT" :> 15) @@ ("FLOAT" :> 5) @@ ("FOR" :> 9) @@
                 ("IDENTIFIER" :> 2) @@ ("IF" :> 18) @@ ("INCLUDE" :> 11) @@ ("INT" :> 10) @@
                 ("RETURN" :> 23) @@ ("WHILE" :> 14) @@ ("assignment" :> 25) @@
                 ("class_def" :> 4) @@ ("declaration" :> 6) @@ ("for_stmt" :> 16) @@
                 ("function_def" :> 22) @@ ("if_stmt" :> 17) @@ ("include" :> 32) @@
                 ("increment" :> 24) @@ ("output" :> 19) @@ ("return_stmt" :> 21) @@
                 ("statement" :> 12) @@ ("statements" :> 31) @@ ("while_stmt" :> 8),
       (*   8 *) [x \in {} |-> 0],
       (*   9 *) ("LPAREN" :> 33),
       (*  10 *) ("IDENTIFIER" :> 34),
       (*  11 *) [x \in {} |-> 0],
       (*  12 *) [x \in {} |-> 0],
       (*  13 *) ("IDENTIFIER" :> 35),
       (*  14 *) ("LPAREN" :> 36),
       (*  15 *) ("LT" :> 37),
       (*  16 *) [x \in {} |-> 0],
       (*  17 *) [x \in {} |-> 0],
       (*  18 *) ("LPAREN" :> 38),
       (*  19 *) [x \in {} |-> 0],
       (*  20 *) [x \in {} |-> 0],
       (*  21 *) [x \in {} |-> 0],
       (*  22 *) [x \in {} |-> 0],
       (*  23 *) ("IDENTIFIER" :> 42) @@ ("NOT" :> 43) @@ ("NUMBER" :> 41) @@ ("STRING" :> 39) @@
                 ("expression" :> 40),
       (*  24 *) [x \in {} |-> 0],
       (*  25 *) [x \in {} |-> 0],
       (*  26 *) [x \in {} |-> 0],
       (*  27 *) ("IDENTIFIER" :> 42) @@ ("NOT" :> 43) @@ ("NUMBER" :> 41) @@ ("STRING" :> 39) @@
                 ("expression" :> 44),
       (*  28 *) ("SEMICOLON" :> 45),
       (*  29 *) [x \in {} |-> 0],
       (*  30 *) ("EQUALS" :> 46),
       (*  31 *) ("CLASS" :> 13) @@ ("COUT" :> 15) @@ ("FLOAT" :> 5) @@ ("FOR" :> 9) @@
                 ("IDENTIFIER" :> 2) @@ ("IF" :> 18) @@ ("INT" :> 10) @@ ("RETURN" :> 23) @@
                 ("WHILE" :> 14) @@ ("assignment" :> 25) @@ ("class_def" :> 4) @@
                 ("declaration" :> 6) @@ ("for_stmt" :> 16) @@ ("function_def" :> 22) @@
                 ("if_stmt" :> 17) @@ ("increment" :> 24) @@ ("output" :> 19) @@
                 ("return_stmt" :> 21) @@ ("statement" :> 29) @@ ("while_stmt" :> 8),
       (*  32 *) [x \in {} |-> 0],
       (*  33 *) ("INT" :> 47),
       (*  34 *) ("EQUALS" :> 49) @@ ("LPAREN" :> 48) @@ ("SEMICOLON" :> 50),
       (*  35 *) ("LBRACE" :> 51),
       (*  36 *) ("IDENTIFIER" :> 42) @@ ("NOT" :> 43) @@ ("NUMBER" :> 41) @@ ("STRING" :> 39) @@
                 ("expression" :> 52),
       (*  37 *) ("LT" :> 53),
       (*  38 *) ("IDENTIFIER" :> 42) @@ ("NOT" :> 43) @@ ("NUMBER" :> 41) @@ ("STRING" :> 39) @@
                 ("expression" :> 54),
       (*  39 *) [x \in {} |-> 0],
       (*  40 *) ("AND" :> 63) @@ ("DIVIDE" :> 61) @@ ("GT" :> 60) @@ ("LT" :> 59) @@
                 ("MINUS" :> 56) @@ ("MULTIPLY" :> 55) @@ ("OR" :> 58) @@ ("PLUS" :> 57) @@
                 ("SEMICOLON" :> 62),
       (*  41 *) [x \in {} |-> 0],
       (*  42 *) [x \in {} |-> 0],
       (*  43 *) ("IDENTIFIER" :> 42) @@ ("NOT" :> 43) @@ ("NUMBER" :> 41) @@ ("STRING" :> 39) @@
                 ("expression" :> 64),
       (*  44 *) ("AND" :> 63) @@ ("DIVIDE" :> 61) @@ ("GT" :> 60) @@ ("LT" :> 59) @@
                 ("MINUS" :> 56) @@ ("MULTIPLY" :> 55) @@ ("OR" :> 58) @@ ("PLUS" :> 57) @@
                 ("SEMICOLON" :> 65),
       (*  45 *) [x \in {} |-> 0],
       (*  46 *) ("IDENTIFIER" :> 42) @@ ("NOT" :> 43) @@ ("NUMBER" :> 41) @@ ("STRING" :> 39) @@
                 ("expression" :> 66),
       (*  47 *) ("IDENTIFIER" :> 67),
       (*  48 *) ("INT" :> 70) @@ ("empty" :> 71) @@ ("param" :> 68) @@ ("params" :> 69),
       (*  49 *) ("IDENTIFIER" :> 42) @@ ("NOT" :> 43) @@ ("NUMBER" :> 41) @@ ("STRING" :> 39) @@
                 ("expression" :> 72),
       (*  50 *) [x \in {} |-> 0],
       (*  51 *) ("FLOAT" :> 5) @@ ("INT" :> 73) @@ ("declaration" :> 75) @@ ("declarations" :> 74),
       (*  52 *) ("AND" :> 63) @@ ("DIVIDE" :> 61) @@ ("GT" :> 60) @@ ("LT" :> 59) @@
                 ("MINUS" :> 56) @@ ("MULTIPLY" :> 55) @@ ("OR" :> 58) @@ ("PLUS" :> 57) @@
                 ("RPAREN" :> 76),
       (*  53 *) ("IDENTIFIER" :> 42) @@ ("NOT" :> 43) @@ ("NUMBER" :> 41) @@ ("STRING" :> 39) @@
                 ("expression" :> 77),
       (*  54 *) ("AND" :> 63) @@ ("DIVIDE" :> 61) @@ ("GT" :> 60) @@ ("LT" :> 59) @@
                 ("MINUS" :> 56) @@ ("MULTIPLY" :> 55) @@ ("OR" :> 58) @@ ("PLUS" :> 57) @@
                 ("RPAREN" :> 78),
       (*  55 *) ("IDENTIFIER" :> 42) @@ ("NOT" :> 43) @@ ("NUMBER" :> 41) @@ ("STRING" :> 39) @@
                 ("expression" :> 79),
       (*  56 *) ("IDENTIFIER" :> 42) @@ ("NOT" :> 43) @@ ("NUMBER" :> 41) @@ ("STRING" :> 39) @@
                 ("expression" :> 80),
       (*  57 *) ("IDENTIFIER" :> 42) @@ ("NOT" :> 43) @@ ("NUMBER" :> 41) @@ ("STRING" :> 39) @@
                 ("expression" :> 81),
       (*  58 *) ("IDENTIFIER" :> 42) @@ ("NOT" :> 43) @@ ("NUMBER" :> 41) @@ ("STRING" :> 39) @@
                 ("expression" :> 82),
       (*  59 *) ("IDENTIFIER" :> 42) @@ ("NOT" :> 43) @@ ("NUMBER" :> 41) @@ ("STRING" :> 39) @@
                 ("expression" :> 83),
       (*  60 *) ("IDENTIFIER" :> 42) @@ ("NOT" :> 43) @@ ("NUMBER" :> 41) @@ ("STRING" :> 39) @@
                 ("expression" :> 84),
       (*  61 *) ("IDENTIFIER" :> 42) @@ ("NOT" :> 43) @@ ("NUMBER" :> 41) @@ ("STRING" :> 39) @@
                 ("expression" :> 85),
       (*  62 *) [x \in {} |-> 0],
       (*  63 *) ("IDENTIFIER" :> 42) @@ ("NOT" :> 43) @@ ("NUMBER" :> 41) @@ ("STRING" :> 39) @@
                 ("expression" :> 86),
       (*  64 *) ("AND" :> 63) @@ ("DIVIDE" :> 61) @@ ("GT" :> 60) @@ ("LT" :> 59) @@
                 ("MINUS" :> 56) @@ ("MULTIPLY" :> 55) @@ ("OR" :> 58) @@ ("PLUS" :> 57),
       (*  65 *) [x \in {} |-> 0],
       (*  66 *) ("AND" :> 63) @@ ("DIVIDE" :> 61) @@ ("GT" :> 60) @@ ("LT" :> 59) @@
                 ("MINUS" :> 56) @@ ("MULTIPLY" :> 55) @@ ("OR" :> 58) @@ ("PLUS" :> 57) @@
                 ("SEMICOLON" :> 87),
       (*  67 *) ("EQUALS" :> 88),
       (*  68 *) [x \in {} |-> 0],
       (*  69 *) ("COMMA" :> 90) @@ ("RPAREN" :> 89),
       (*  70 *) ("IDENTIFIER" :> 91),
       (*  71 *) [x \in {} |-> 0],
       (*  72 *) ("AND" :> 63) @@ ("DIVIDE" :> 61) @@ ("GT" :> 60) @@ ("LT" :> 59) @@
                 ("MINUS" :> 56) @@ ("MULTIPLY" :> 55) @@ ("OR" :> 58) @@ ("PLUS" :> 57) @@
                 ("SEMICOLON" :> 92),
       (*  73 *) ("IDENTIFIER" :> 93),
       (*  74 *) ("FLOAT" :> 5) @@ ("INT" :> 95) @@ ("RBRACE" :> 94) @@ ("declaration" :> 96),
       (*  75 *) [x \in {} |-> 0],
       (*  76 *) ("LBRACE" :> 97),
       (*  77 *) ("AND" :> 63) @@ ("DIVIDE" :> 61) @@ ("GT" :> 60) @@ ("LT" :> 98) @@
                 ("MINUS" :> 56) @@ ("MULTIPLY" :> 55) @@ ("OR" :> 58) @@ ("PLUS" :> 57) @@
                 ("SEMICOLON" :> 99),
       (*  78 *) ("LBRACE" :> 100),
       (*  79 *) ("AND" :> 63) @@ ("DIVIDE" :> 61) @@ ("GT" :> 60) @@ ("LT" :> 59) @@
                 ("MINUS" :> 56) @@ ("MULTIPLY" :> 55) @@ ("OR" :> 58) @@ ("PLUS" :> 57),
       (*  80 *) ("AND" :> 63) @@ ("DIVIDE" :> 61) @@ ("GT" :> 60) @@ ("LT" :> 59) @@
                 ("MINUS" :> 56) @@ ("MULTIPLY" :> 55) @@ ("OR" :> 58) @@ ("PLUS" :> 57),
       (*  81 *) ("AND" :> 63) @@ ("DIVIDE" :> 61) @@ ("GT" :> 60) @@ ("LT" :> 59) @@
                 ("MINUS" :> 56) @@ ("MULTIPLY" :> 55) @@ ("OR" :> 58) @@ ("PLUS" :> 57),
       (*  82 *) ("AND" :> 63) @@ ("DIVIDE" :> 61) @@ ("GT" :> 60) @@ ("LT" :> 59) @@
                 ("MINUS" :> 56) @@ ("MULTIPLY" :> 55) @@ ("OR" :> 58) @@ ("PLUS" :> 57),
       (*  83 *) ("AND" :> 63) @@ ("DIVIDE" :> 61) @@ ("GT" :> 60) @@ ("LT" :> 59) @@
                 ("MINUS" :> 56) @@ ("MULTIPLY" :> 55) @@ ("OR" :> 58) @@ ("PLUS" :> 57),
       (*  84 *) ("AND" :> 63) @@ ("DIVIDE" :> 61) @@ ("GT" :> 60) @@ ("LT" :> 59) @@
                 ("MINUS" :> 56) @@ ("MULTIPLY" :> 55) @@ ("OR" :> 58) @@ ("PLUS" :> 57),
       (*  85 *) ("AND" :> 63) @@ ("DIVIDE" :> 61) @@ ("GT" :> 60) @@ ("LT" :> 59) @@
                 ("MINUS" :> 56) @@ ("MULTIPLY" :> 55) @@ ("OR" :> 58) @@ ("PLUS" :> 57),
       (*  86 *) ("AND" :> 63) @@ ("DIVIDE" :> 61) @@ ("GT" :> 60) @@ ("LT" :> 59) @@
                 ("MINUS" :> 56) @@ ("MULTIPLY" :> 55) @@ ("OR" :> 58) @@ ("PLUS" :> 57),
       (*  87 *) [x \in {} |-> 0],
       (*  88 *) ("IDENTIFIER" :> 42) @@ ("NOT" :> 43) @@ ("NUMBER" :> 41) @@ ("STRING" :> 39) @@
                 ("expression" :> 101),
       (*  89 *) ("LBRACE" :> 102),
       (*  90 *) ("INT" :> 70) @@ ("param" :> 103),
       (*  91 *) [x \in {} |-> 0],
       (*  92 *) [x \in {} |-> 0],
       (*  93 *) ("EQUALS" :> 49) @@ ("SEMICOLON" :> 104),
       (*  94 *) ("SEMICOLON" :> 105),
       (*  95 *) ("IDENTIFIER" :> 106),
       (*  96 *) [x \in {} |-> 0],
       (*  97 *) ("CLASS" :> 13) @@ ("COUT" :> 15) @@ ("FLOAT" :> 5) @@ ("FOR" :> 9) @@
                 ("IDENTIFIER" :> 2) @@ ("IF" :> 18) @@ ("INT" :> 10) @@ ("RETURN" :> 23) @@
                 ("WHILE" :> 14) @@ ("assignment" :> 25) @@ ("class_def" :> 4) @@
                 ("declaration" :> 6) @@ ("for_stmt" :> 16) @@ ("function_def" :> 22) @@
                 ("if_stmt" :> 17) @@ ("increment" :> 24) @@ ("output" :> 19) @@
                 ("return_stmt" :> 21) @@ ("statement" :> 12) @@ ("statements" :> 107) @@
                 ("while_stmt" :> 8),
       (*  98 *) ("IDENTIFIER" :> 42) @@ ("LT" :> 108) @@ ("NOT" :> 43) @@ ("NUMBER" :> 41) @@
                 ("STRING" :> 39) @@ ("expression" :> 83),
       (*  99 *) [x \in {} |-> 0],
       (* 100 *) ("CLASS" :> 13) @@ ("COUT" :> 15) @@ ("FLOAT" :> 5) @@ ("FOR" :> 9) @@
                 ("IDENTIFIER" :> 2) @@ ("IF" :> 18) @@ ("INT" :> 10) @@ ("RETURN" :> 23) @@
                 ("WHILE" :> 14) @@ ("assignment" :> 25) @@ ("class_def" :> 4) @@
                 ("declaration" :> 6) @@ ("for_stmt" :> 16) @@ ("function_def" :> 22) @@
                 ("if_stmt" :> 17) @@ ("increment" :> 24) @@ ("output" :> 19) @@
                 ("return_stmt" :> 21) @@ ("statement" :> 12) @@ ("statements" :> 109) @@
                 ("while_stmt" :> 8),
       (* 101 *) ("AND" :> 63) @@ ("DIVIDE" :> 61) @@ ("GT" :> 60) @@ ("LT" :> 59) @@
                 ("MINUS" :> 56) @@ ("MULTIPLY" :> 55) @@ ("OR" :> 58) @@ ("PLUS" :> 57) @@
                 ("SEMICOLON" :> 110),
       (* 102 *) ("CLASS" :> 13) @@ ("COUT" :> 15) @@ ("FLOAT" :> 5) @@ ("FOR" :> 9) @@
                 ("IDENTIFIER" :> 2) @@ ("IF" :> 18) @@ ("INT" :> 10) @@ ("RETURN" :> 23) @@
                 ("WHILE" :> 14) @@ ("assignment" :> 25) @@ ("class_def" :> 4) @@
                 ("declaration" :> 6) @@ ("for_stmt" :> 16) @@ ("function_def" :> 22) @@
                 ("if_stmt" :> 17) @@ ("increment" :> 24) @@ ("output" :> 19) @@
                 ("return_stmt" :> 21) @@ ("statement" :> 12) @@ ("statements" :> 111) @@
                 ("while_stmt" :> 8),
       (* 103 *) [x \in {} |-> 0],
       (* 104 *) [x \in {} |-> 0],
       (* 105 *) [x \in {} |-> 0],
       (* 106 *) ("EQUALS" :> 49) @@ ("SEMICOLON" :> 112),
       (* 107 *) ("CLASS" :> 13) @@ ("COUT" :> 15) @@ ("FLOAT" :> 5) @@ ("FOR" :> 9) @@
                 ("IDENTIFIER" :> 2) @@ ("IF" :> 18) @@ ("INT" :> 10) @@ ("RBRACE" :> 113) @@
                 ("RETURN" :> 23) @@ ("WHILE" :> 14) @@ ("assignment" :> 25) @@
                 ("class_def" :> 4) @@ ("declaration" :> 6) @@ ("for_stmt" :> 16) @@
                 ("function_def" :> 22) @@ ("if_stmt" :> 17) @@ ("increment" :> 24) @@
                 ("output" :> 19) @@ ("return_stmt" :> 21) @@ ("statement" :> 29) @@
                 ("while_stmt" :> 8),
       (* 108 *) ("ENDL" :> 114),
       (* 109 *) ("CLASS" :> 13) @@ ("COUT" :> 15) @@ ("FLOAT" :> 5) @@ ("FOR" :> 9) @@
                 ("IDENTIFIER" :> 2) @@ ("IF" :> 18) @@ ("INT" :> 10) @@ ("RBRACE" :> 115) @@
                 ("RETURN" :> 23) @@ ("WHILE" :> 14) @@ ("assignment" :> 25) @@
                 ("class_def" :> 4) @@ ("declaration" :> 6) @@ ("for_stmt" :> 16) @@
                 ("function_def" :> 22) @@ ("if_stmt" :> 17) @@ ("increment" :> 24) @@
                 ("output" :> 19) @@ ("return_stmt" :> 21) @@ ("statement" :> 29) @@
                 ("while_stmt" :> 8),
       (* 110 *) ("IDENTIFIER" :> 42) @@ ("NOT" :> 43) @@ ("NUMBER" :> 41) @@ ("STRING" :> 39) @@
                 ("expression" :> 116),
       (* 111 *) ("CLASS" :> 13) @@ ("COUT" :> 15) @@ ("FLOAT" :> 5) @@ ("FOR" :> 9) @@
                 ("IDENTIFIER" :> 2) @@ ("IF" :> 18) @@ ("INT" :> 10) @@ ("RBRACE" :> 117) @@
                 ("RETURN" :> 23) @@ ("WHILE" :> 14) @@ ("assignment" :> 25) @@
                 ("class_def" :> 4) @@ ("declaration" :> 6) @@ ("for_stmt" :> 16) @@
                 ("function_def" :> 22) @@ ("if_stmt" :> 17) @@ ("increment" :> 24) @@
                 ("output" :> 19) @@ ("return_stmt" :> 21) @@ ("statement" :> 29) @@
                 ("while_stmt" :> 8),
       (* 112 *) [x \in {} |-> 0],
       (* 113 *) [x \in {} |-> 0],
       (* 114 *) ("SEMICOLON" :> 118),
       (* 115 *) ("ELSE" :> 119),
       (* 116 *) ("AND" :> 63) @@ ("DIVIDE" :> 61) @@ ("GT" :> 60) @@ ("LT" :> 59) @@
                 ("MINUS" :> 56) @@ ("MULTIPLY" :> 55) @@ ("OR" :> 58) @@ ("PLUS" :> 57) @@
                 ("SEMICOLON" :> 120),
       (* 117 *) [x \in {} |-> 0],
       (* 118 *) [x \in {} |-> 0],
       (* 119 *) ("LBRACE" :> 121),
       (* 120 *) ("IDENTIFIER" :> 122),
       (* 121 *) ("CLASS" :> 13) @@ ("COUT" :> 15) @@ ("FLOAT" :> 5) @@ ("FOR" :> 9) @@
                 ("IDENTIFIER" :> 2) @@ ("IF" :> 18) @@ ("INT" :> 10) @@ ("RETURN" :> 23) @@
                 ("WHILE" :> 14) @@ ("assignment" :> 25) @@ ("class_def" :> 4) @@
                 ("declaration" :> 6) @@ ("for_stmt" :> 16) @@ ("function_def" :> 22) @@
                 ("if_stmt" :> 17) @@ ("increment" :> 24) @@ ("output" :> 19) @@
                 ("return_stmt" :> 21) @@ ("statement" :> 12) @@ ("statements" :> 123) @@
                 ("while_stmt" :> 8),
       (* 122 *) ("PLUSPLUS" :> 124),
       (* 123 *) ("CLASS" :> 13) @@ ("COUT" :> 15) @@ ("FLOAT" :> 5) @@ ("FOR" :> 9) @@
                 ("IDENTIFIER" :> 2) @@ ("IF" :> 18) @@ ("INT" :> 10) @@ ("RBRACE" :> 125) @@
                 ("RETURN" :> 23) @@ ("WHILE" :> 14) @@ ("assignment" :> 25) @@
                 ("class_def" :> 4) @@ ("declaration" :> 6) @@ ("for_stmt" :> 16) @@
                 ("function_def" :> 22) @@ ("if_stmt" :> 17) @@ ("increment" :> 24) @@
                 ("output" :> 19) @@ ("return_stmt" :> 21) @@ ("statement" :> 29) @@
                 ("while_stmt" :> 8),
       (* 124 *) ("RPAREN" :> 126),
       (* 125 *) [x \in {} |-> 0],
       (* 126 *) ("LBRACE" :> 127),
       (* 127 *) ("CLASS" :> 13) @@ ("COUT" :> 15) @@ ("FLOAT" :> 5) @@ ("FOR" :> 9) @@
                 ("IDENTIFIER" :> 2) @@ ("IF" :> 18) @@ ("INT" :> 10) @@ ("RETURN" :> 23) @@
                 ("WHILE" :> 14) @@ ("assignment" :> 25) @@ ("class_def" :> 4) @@
                 ("declaration" :> 6) @@ ("for_stmt" :> 16) @@ ("function_def" :> 22) @@
                 ("if_stmt" :> 17) @@ ("increment" :> 24) @@ ("output" :> 19) @@
                 ("return_stmt" :> 21) @@ ("statement" :> 12) @@ ("statements" :> 128) @@
                 ("while_stmt" :> 8),
       (* 128 *) ("CLASS" :> 13) @@ ("COUT" :> 15) @@ ("FLOAT" :> 5) @@ ("FOR" :> 9) @@
                 ("IDENTIFIER" :> 2) @@ ("IF" :> 18) @@ ("INT" :> 10) @@ ("RBRACE" :> 129) @@
                 ("RETURN" :> 23) @@ ("WHILE" :> 14) @@ ("assignment" :> 25) @@
                 ("class_def" :> 4) @@ ("declaration" :> 6) @@ ("for_stmt" :> 16) @@
                 ("function_def" :> 22) @@ ("if_stmt" :> 17) @@ ("increment" :> 24) @@
                 ("output" :> 19) @@ ("return_stmt" :> 21) @@ ("statement" :> 29) @@
                 ("while_stmt" :> 8),
       (* 129 *) [x \in {} |-> 0]
    >>

LRReduce ==
    <<
       (*   1 *) {},
       (*   2 *) {},
       (*   3 *) { [prod |-> 2, la |-> {"$end"}] },
       (*   4 *) { [prod |-> 14, la |-> {"$end", "CLASS", "COUT", "FLOAT", "FOR", "IDENTIFIER",
                   "IF", "INT", "RBRACE", "RETURN", "WHILE"}] },
       (*   5 *) {},
       (*   6 *) { [prod |-> 7, la |-> {"$end", "CLASS", "COUT", "FLOAT", "FOR", "IDENTIFIER", "IF",
                   "INT", "RBRACE", "RETURN", "WHILE"}] },
       (*   7 *) {},
       (*   8 *) { [prod |-> 12, la |-> {"$end", "CLASS", "COUT", "FLOAT", "FOR", "IDENTIFIER",
                   "IF", "INT", "RBRACE", "RETURN", "WHILE"}] },
       (*   9 *) {},
       (*  10 *) {},
       (*  11 *) { [prod |-> 17, la |-> {"CLASS", "COUT", "FLOAT", "FOR", "IDENTIFIER", "IF",
                   "INCLUDE", "INT", "RETURN", "WHILE"}] },
       (*  12 *) { [prod |-> 5, la |-> {"$end", "CLASS", "COUT", "FLOAT", "FOR", "IDENTIFIER", "IF",
                   "INT", "RBRACE", "RETURN", "WHILE"}] },
       (*  13 *) {},
       (*  14 *) {},
       (*  15 *) {},
       (*  16 *) { [prod |-> 11, la |-> {"$end", "CLASS", "COUT", "FLOAT", "FOR", "IDENTIFIER",
                   "IF", "INT", "RBRACE", "RETURN", "WHILE"}] },
       (*  17 *) { [prod |-> 10, la |-> {"$end", "CLASS", "COUT", "FLOAT", "FOR", "IDENTIFIER",
                   "IF", "INT", "RBRACE", "RETURN", "WHILE"}] },
       (*  18 *) {},
       (*  19 *) { [prod |-> 15, la |-> {"$end", "CLASS", "COUT", "FLOAT", "FOR", "IDENTIFIER",
                   "IF", "INT", "RBRACE", "RETURN", "WHILE"}] },
       (*  20 *) { [prod |-> 3, la |-> {"CLASS", "COUT", "FLOAT", "FOR", "IDENTIFIER", "IF",
                   "INCLUDE", "INT", "RETURN", "WHILE"}] },
       (*  21 *) { [prod |-> 16, la |-> {"$end", "CLASS", "COUT", "FLOAT", "FOR", "IDENTIFIER",
                   "IF", "INT", "RBRACE", "RETURN", "WHILE"}] },
       (*  22 *) { [prod |-> 13, la |-> {"$end", "CLASS", "COUT", "FLOAT", "FOR", "IDENTIFIER",
                   "IF", "INT", "RBRACE", "RETURN", "WHILE"}] },
       (*  23 *) {},
       (*  24 *) { [prod |-> 9, la |-> {"$end", "CLASS", "COUT", "FLOAT", "FOR", "IDENTIFIER", "IF",
                   "INT", "RBRACE", "RETURN", "WHILE"}] },
       (*  25 *) { [prod |-> 8, la |-> {"$end", "CLASS", "COUT", "FLOAT", "FOR", "IDENTIFIER", "IF",
                   "INT", "RBRACE", "RETURN", "WHILE"}] },
       (*  26 *) { [prod |-> 0, la |-> {"$end"}] },
       (*  27 *) {},
       (*  28 *) {},
       (*  29 *) { [prod |-> 6, la |-> {"$end", "CLASS", "COUT", "FLOAT", "FOR", "IDENTIFIER", "IF",
                   "INT", "RBRACE", "RETURN", "WHILE"}] },
       (*  30 *) {},
       (*  31 *) { [prod |-> 1, la |-> {"$end"}] },
       (*  32 *) { [prod |-> 4, la |-> {"CLASS", "COUT", "FLOAT", "FOR", "IDENTIFIER", "IF",
                   "INCLUDE", "INT", "RETURN", "WHILE"}] },
       (*  33 *) {},
       (*  34 *) {},
       (*  35 *) {},
       (*  36 *) {},
       (*  37 *) {},
       (*  38 *) {},
       (*  39 *) { [prod |-> 51, la |-> {"AND", "DIVIDE", "GT", "LT", "MINUS", "MULTIPLY", "OR",
                   "PLUS", "RPAREN", "SEMICOLON"}] },
       (*  40 *) {},
       (*  41 *) { [prod |-> 49, la |-> {"AND", "DIVIDE", "GT", "LT", "MINUS", "MULTIPLY", "OR",
                   "PLUS", "RPAREN", "SEMICOLON"}] },
       (*  42 *) { [prod |-> 50, la |-> {"AND", "DIVIDE", "GT", "LT", "MINUS", "MULTIPLY", "OR",
                   "PLUS", "RPAREN", "SEMICOLON"}] },
       (*  43 *) {},
       (*  44 *) {},
       (*  45 *) { [prod |-> 22, la |-> {"$end", "CLASS", "COUT", "FLOAT", "FOR", "IDENTIFIER",
                   "IF", "INT", "RBRACE", "RETURN", "WHILE"}] },
       (*  46 *) {},
       (*  47 *) {},
       (*  48 *) { [prod |-> 52, la |-> {"COMMA", "RPAREN"}] },
       (*  49 *) {},
       (*  50 *) { [prod |-> 20, la |-> {"$end", "CLASS", "COUT", "FLOAT", "FOR", "IDENTIFIER",
                   "IF", "INT", "RBRACE", "RETURN", "WHILE"}] },
       (*  51 *) {},
       (*  52 *) {},
       (*  53 *) {},
       (*  54 *) {},
       (*  55 *) {},
       (*  56 *) {},
       (*  57 *) {},
       (*  58 *) {},
       (*  59 *) {},
       (*  60 *) {},
       (*  61 *) {},
       (*  62 *) { [prod |-> 39, la |-> {"$end", "CLASS", "COUT", "FLOAT", "FOR", "IDENTIFIER",
                   "IF", "INT", "RBRACE", "RETURN", "WHILE"}] },
       (*  63 *) {},
       (*  64 *) { [prod |-> 48, la |-> {"AND", "DIVIDE", "GT", "LT", "MINUS", "MULTIPLY", "OR",
                   "PLUS", "RPAREN", "SEMICOLON"}] },
       (*  65 *) { [prod |-> 21, la |-> {"$end", "CLASS", "COUT", "FLOAT", "FOR", "IDENTIFIER",
                   "IF", "INT", "RBRACE", "RETURN", "WHILE"}] },
       (*  66 *) {},
       (*  67 *) {},
       (*  68 *) { [prod |-> 28, la |-> {"COMMA", "RPAREN"}] },
       (*  69 *) {},
       (*  70 *) {},
       (*  71 *) { [prod |-> 30, la |-> {"COMMA", "RPAREN"}] },
       (*  72 *) {},
       (*  73 *) {},
       (*  74 *) {},
       (*  75 *) { [prod |-> 33, la |-> {"FLOAT", "INT", "RBRACE"}] },
       (*  76 *) {},
       (*  77 *) {},
       (*  78 *) {},
       (*  79 *) { [prod |-> 42, la |-> {"AND", "DIVIDE", "GT", "LT", "MINUS", "MULTIPLY", "OR",
                   "PLUS", "RPAREN", "SEMICOLON"}] },
       (*  80 *) { [prod |-> 41, la |-> {"AND", "DIVIDE", "GT", "LT", "MINUS", "MULTIPLY", "OR",
                   "PLUS", "RPAREN", "SEMICOLON"}] },
       (*  81 *) { [prod |-> 40, la |-> {"AND", "DIVIDE", "GT", "LT", "MINUS", "MULTIPLY", "OR",
                   "PLUS", "RPAREN", "SEMICOLON"}] },
       (*  82 *) { [prod |-> 47, la |-> {"AND", "DIVIDE", "GT", "LT", "MINUS", "MULTIPLY", "OR",
                   "PLUS", "RPAREN", "SEMICOLON"}] },
       (*  83 *) { [prod |-> 44, la |-> {"AND", "DIVIDE", "GT", "LT", "MINUS", "MULTIPLY", "OR",
                   "PLUS", "RPAREN", "SEMICOLON"}] },
       (*  84 *) { [prod |-> 45, la |-> {"AND", "DIVIDE", "GT", "LT", "MINUS", "MULTIPLY", "OR",
                   "PLUS", "RPAREN", "SEMICOLON"}] },
       (*  85 *) { [prod |-> 43, la |-> {"AND", "DIVIDE", "GT", "LT", "MINUS", "MULTIPLY", "OR",
                   "PLUS", "RPAREN", "SEMICOLON"}] },
       (*  86 *) { [prod |-> 46, la |-> {"AND", "DIVIDE", "GT", "LT", "MINUS", "MULTIPLY", "OR",
                   "PLUS", "RPAREN", "SEMICOLON"}] },
       (*  87 *) { [prod |-> 19, la |-> {"$end", "CLASS", "COUT", "FLOAT", "FOR", "IDENTIFIER",
                   "IF", "INT", "RBRACE", "RETURN", "WHILE"}] },
       (*  88 *) {},
       (*  89 *) {},
       (*  90 *) {},
       (*  91 *) { [prod |-> 31, la |-> {"COMMA", "RPAREN"}] },
       (*  92 *) { [prod |-> 18, la |-> {"$end", "CLASS", "COUT", "FLOAT", "FOR", "IDENTIFIER",
                   "IF", "INT", "RBRACE", "RETURN", "WHILE"}] },
       (*  93 *) {},
       (*  94 *) {},
       (*  95 *) {},
       (*  96 *) { [prod |-> 34, la |-> {"FLOAT", "INT", "RBRACE"}] },
       (*  97 *) {},
       (*  98 *) {},
       (*  99 *) { [prod |-> 37, la |-> {"$end", "CLASS", "COUT", "FLOAT", "FOR", "IDENTIFIER",
                   "IF", "INT", "RBRACE", "RETURN", "WHILE"}] },
       (* 100 *) {},
       (* 101 *) {},
       (* 102 *) {},
       (* 103 *) { [prod |-> 29, la |-> {"COMMA", "RPAREN"}] },
       (* 104 *) { [prod |-> 20, la |-> {"FLOAT", "INT", "RBRACE"}],
       (* 104 *)   [prod |-> 35, la |-> {"FLOAT", "INT", "RBRACE"}] },
       (* 105 *) { [prod |-> 32, la |-> {"$end", "CLASS", "COUT", "FLOAT", "FOR", "IDENTIFIER",
                   "IF", "INT", "RBRACE", "RETURN", "WHILE"}] },
       (* 106 *) {},
       (* 107 *) {},
       (* 108 *) {},
       (* 109 *) {},
       (* 110 *) {},
       (* 111 *) {},
       (* 112 *) { [prod |-> 20, la |-> {"FLOAT", "INT", "RBRACE"}],
       (* 112 *)   [prod |-> 36, la |-> {"FLOAT", "INT", "RBRACE"}] },
       (* 113 *) { [prod |-> 26, la |-> {"$end", "CLASS", "COUT", "FLOAT", "FOR", "IDENTIFIER",
                   "IF", "INT", "RBRACE", "RETURN", "WHILE"}] },
       (* 114 *) {},
       (* 115 *) { [prod |-> 23, la |-> {"$end", "CLASS", "COUT", "FLOAT", "FOR", "IDENTIFIER",
                   "IF", "INT", "RBRACE", "RETURN", "WHILE"}] },
       (* 116 *) {},
       (* 117 *) { [prod |-> 27, la |-> {"$end", "CLASS", "COUT", "FLOAT", "FOR", "IDENTIFIER",
                   "IF", "INT", "RBRACE", "RETURN", "WHILE"}] },
       (* 118 *) { [prod |-> 38, la |-> {"$end", "CLASS", "COUT", "FLOAT", "FOR", "IDENTIFIER",
                   "IF", "INT", "RBRACE", "RETURN", "WHILE"}] },
       (* 119 *) {},
       (* 120 *) {},
       (* 121 *) {},
       (* 122 *) {},
       (* 123 *) {},
       (* 124 *) {},
       (* 125 *) { [prod |-> 24, la |-> {"$end", "CLASS", "COUT", "FLOAT", "FOR", "IDENTIFIER",
                   "IF", "INT", "RBRACE", "RETURN", "WHILE"}] },
       (* 126 *) {},
       (* 127 *) {},
       (* 128 *) {},
       (* 129 *) { [prod |-> 25, la |-> {"$end", "CLASS", "COUT", "FLOAT", "FOR", "IDENTIFIER",
                   "IF", "INT", "RBRACE", "RETURN", "WHILE"}] }
    >>

\* The precedence of a terminal: its level and associativity in the
\* precedence table, ('right', 0) when it is not in the table.
TermPrec(a) ==
    IF \E l \in 1..Len(precedence) : a \in precedence[l].terms
    THEN LET l == CHOOSE l \in 1..Len(precedence) : a \in precedence[l].terms
         IN [assoc |-> precedence[l].assoc, level |-> l]
    ELSE [assoc |-> "right", level |-> 0]

\* The precedence of a production: that of its rightmost terminal.
ProdPrec(pn) ==
    With(Productions[pn].syms, LAMBDA syms :
    With({k \in 1..Len(syms) : syms[k] \in tokens}, LAMBDA ts :
       IF ts = {} THEN [assoc |-> "right", level |-> 0]
       ELSE TermPrec(syms[CHOOSE k \in ts : \A j \in ts : j <= k])))

Shift(n) == [kind |-> "shift", n |-> n]

Reduce(pn) == [kind |-> "reduce", n |-> pn]

Accept == [kind |-> "accept", n |-> 0]

NoAction == [kind |-> "error", n |-> 0]

\* A shift/reduce conflict: reduce when the production's level is above the
\* token's, or equal with a left-associative production; shift otherwise.
ShiftReduce(target, pn, a) ==
    With(TermPrec(a), LAMBDA s :
    With(ProdPrec(pn), LAMBDA r :
       IF s.level < r.level \/ (s.level = r.level /\ r.assoc = "left") THEN Reduce(pn)
       ELSE IF s.level = r.level /\ r.assoc = "nonassoc" THEN NoAction
       ELSE Shift(target)))

\* The parsing table's entry for state s and terminal a. Of two productions
\* that can be reduced the one written first in the file is taken.
Action(s, a) ==
    With({r.prod : r \in {r \in LRReduce[s] : a \in r.la}}, LAMBDA reds :
    With(LRGoto[s], LAMBDA goto :
       IF reds = {} THEN (IF a \in DOMAIN goto THEN Shift(goto[a]) ELSE NoAction)
       ELSE With(CHOOSE pn \in reds :
                    \A qn \in reds :
                       pn = 0 \/ (qn # 0 /\ Productions[pn].line <= Productions[qn].line),
                 LAMBDA first :
                    IF first = 0 THEN Accept
                    ELSE IF a \in DOMAIN goto THEN ShiftReduce(goto[a], first, a)
                    ELSE Reduce(first))))

NStates == Len(LRGoto)

\* The states whose table has a single entry, a reduction: there the parser
\* reduces without reading a token.
defaulted_states ==
    {s \in 1..NStates :
        With({a \in tokens \cup {"$end"} : Action(s, a) # NoAction}, LAMBDA entries :
           /\ Cardinality(entries) = 1
           /\ \A a \in entries : Action(s, a).kind = "reduce")}

p_error(tok) ==
    IF tok.type # "$end"
    THEN SyntaxError(<<"S","y","n","t","a","x"," ","e","r","r","o","r"," ","a","t"," ","'">>
                     \o str(tok.value)
                     \o <<"'"," ","o","n"," ","l","i","n","e"," ">> \o IntStr(tok.lineno),
                     tok.lineno, tok.lexpos)
    ELSE SyntaxError(<<"U","n","e","x","p","e","c","t","e","d"," ","e","n","d"," ",
                       "o","f"," ","i","n","p","u","t">>, 0, -1)

NoLookahead == LexToken("", NoneV, 0, 0)

Symbol(type, value) == [type |-> type, value |-> value]

Top(stack) == stack[Len(stack)]

Pop(stack, n) == SubSeq(stack, 1, Len(stack) - n)

\* How a parse ends: with the value of the start symbol, or with the raised
\* error; the lexer and the stacks are as the parse leaves them.
Outcome(raised, value, st) ==
    [raised |-> raised, value |-> value, lexer |-> st.lexer,
     statestack |-> st.statestack, symstack |-> st.symstack, shifted |-> st.shifted]

\* The point st with the parse over: return of the start symbol's value, or
\* the exception on its way out of parse.
Ended(raised, value, st) == [st EXCEPT !.ended = TRUE, !.raised = raised, !.value = value]

\* One turn of the parser's loop at the point st: a token is read only when
\* the state needs one and none is held; then the table's action is taken.
Turn(st) ==
    With(Top(st.statestack), LAMBDA state :
    With(state \notin defaulted_states, LAMBDA needs :
    With(IF needs /\ st.lookahead = NoLookahead
         THEN token(st.lexer)
         ELSE [tok |-> st.lookahead, lexer |-> st.lexer], LAMBDA read :
    With(read.tok, LAMBDA la :
    With([st EXCEPT !.lexer = read.lexer, !.lookahead = la], LAMBDA now :
    With(IF needs THEN Action(state, la.type)
         ELSE Reduce(CHOOSE pn \in {r.prod : r \in LRReduce[state]} : TRUE), LAMBDA t :
       IF la.type = "SyntaxError" THEN Ended(TRUE, la, now)
       ELSE IF t.kind = "shift"
       THEN [now EXCEPT !.statestack = Append(@, t.n),
                        !.symstack = Append(@, Symbol(la.type, la.value)),
                        !.lookahead = NoLookahead,
                        !.shifted = @ + 1]
       ELSE IF t.kind = "reduce"
       THEN With(Productions[t.n], LAMBDA prod :
            With(Len(prod.syms), LAMBDA plen :
            With(SubSeq(now.symstack, Len(now.symstack) - plen + 1, Len(now.symstack)),
                 LAMBDA rhs :
            With(Callable(prod.func, [k \in 1..plen |-> rhs[k].value]), LAMBDA value :
            With(Pop(now.statestack, plen), LAMBDA states :
               [now EXCEPT !.statestack = Append(states, LRGoto[Top(states)][prod.name]),
                           !.symstack = Append(Pop(now.symstack, plen),
                                               Symbol(prod.name, value))])))))
       ELSE IF t.kind = "accept" THEN Ended(FALSE, Top(now.symstack).value, now)
       ELSE Ended(TRUE, p_error(la), now)))))))

\* The parser's loop: turns until the parse is over.
RECURSIVE Loop(_)
Loop(st) == IF st.ended THEN Outcome(st.raised, st.value, st) ELSE Loop(Turn(st))

\* parser.parse(input, lexer=lexer): the input is given to the lexer and the
\* stacks start anew.
parse(input, lx) ==
    Loop([lexer |-> lexer_input(lx, input), lookahead |-> NoLookahead,
          statestack |-> <<1>>, symstack |-> <<Symbol("$end", NoneV)>>, shifted |-> 0,
          ended |-> FALSE, raised |-> FALSE, value |-> NoneV])

----------------------------------------------------------------------------
(* The code generator                                                      *)

\* What a generation gives: the text, or a fault (an exception that is not
\* a SyntaxError: a child that is not there, an operator not in op_map).
Text(chars) == [fault |-> FALSE, text |-> chars]

Fault == [fault |-> TRUE, text |-> <<>>]

RECURSIVE Flatten(_)
Flatten(texts) == IF texts = <<>> THEN <<>> ELSE Head(texts) \o Flatten(Tail(texts))

\* The parts of a formatted string, put together.
Format(parts) ==
    IF \E k \in 1..Len(parts) : parts[k].fault THEN Fault
    ELSE Text(Flatten([k \in 1..Len(parts) |-> parts[k].text]))

\* '    ' * indent
RECURSIVE indent_str(_)
indent_str(indent) ==
    IF indent <= 0 THEN <<>> ELSE <<" ", " ", " ", " ">> \o indent_str(indent - 1)

\* An operator table without the entry of ||: the variant C3_AlwaysAString
\* has to tell from the code's, since the grammar still produces the node.
op_map_without_or ==
    ("+" :> <<"+">>) @@ ("-" :> <<"-">>) @@ ("*" :> <<"*">>) @@ ("/" :> <<"/">>) @@
    ("<" :> <<"<">>) @@ (">" :> <<">">>) @@ ("&&" :> <<"a", "n", "d">>)

op_map ==
    ("+" :> <<"+">>) @@ ("-" :> <<"-">>) @@ ("*" :> <<"*">>) @@ ("/" :> <<"/">>) @@
    ("<" :> <<"<">>) @@ (">" :> <<">">>) @@ ("&&" :> <<"a", "n", "d">>) @@
    ("||" :> <<"o", "r">>)

\* ', '.join(c.value for c in children)
RECURSIVE JoinValues(_)
JoinValues(children) ==
    IF children = <<>> THEN <<>>
    ELSE IF Len(children) = 1 THEN children[1].value.s
    ELSE children[1].value.s \o <<",", " ">> \o JoinValues(Tail(children))

NL == <<"\n">>

RECURSIVE generate_code(_, _)
RECURSIVE GenerateEach(_, _)
RECURSIVE GenerateFields(_, _)

\* generate_code(node.children[k], indent), with k counted from 0
Child(node, k, indent) ==
    IF k + 1 > Len(node.children) THEN Fault
    ELSE generate_code(node.children[k + 1], indent)

generate_code(node, indent) ==
    LET ind == Text(indent_str(indent))
    IN IF node = NoneV THEN Text(<<>>)
       ELSE CASE node.type \in {"program", "statements"} ->
                    GenerateEach(node.children, indent)
              [] node.type = "declaration" ->
                    Format(<<ind, Text(str(node.value)), Text(<<" ", "=", " ">>),
                             IF node.children # <<>> THEN Child(node, 0, 0) ELSE Text(IntStr(0)),
                             Text(NL)>>)
              [] node.type = "assignment" ->
                    Format(<<ind, Text(str(node.value)), Text(<<" ", "=", " ">>),
                             Child(node, 0, 0), Text(NL)>>)
              [] node.type = "increment" ->
                    Format(<<ind, Text(str(node.value)), Text(<<" ", "=", " ">>),
                             Text(str(node.value)), Text(<<" ", "+", " ", "1">>), Text(NL)>>)
              [] node.type = "if" ->
                    Format(<<ind, Text(<<"i", "f", " ">>), Child(node, 0, 0), Text(<<":">>),
                             Text(NL), Child(node, 1, indent + 1)>>
                           \o (IF Len(node.children) > 2
                               THEN <<ind, Text(<<"e", "l", "s", "e", ":">>), Text(NL),
                                      Child(node, 2, indent + 1)>>
                               ELSE <<>>))
              [] node.type = "for" ->
                    Format(<<ind, Text(<<"f", "o", "r", " ">>), Text(str(node.value)),
                             Text(<<" ", "i", "n", " ", "r", "a", "n", "g", "e", "(">>),
                             Child(node, 0, 0), Text(<<",", " ">>), Child(node, 1, 0),
                             Text(<<")", ":">>), Text(NL), Child(node, 2, indent + 1)>>)
              [] node.type = "while" ->
                    Format(<<ind, Text(<<"w", "h", "i", "l", "e", " ">>), Child(node, 0, 0),
                             Text(<<":">>), Text(NL), Child(node, 1, indent + 1)>>)
              [] node.type = "function" ->
                    Format(<<ind, Text(<<"d", "e", "f", " ">>), Text(str(node.value)),
                             Text(<<"(">>),
                             IF node.children = <<>> THEN Fault
                             ELSE Text(JoinValues(node.children[1].children)),
                             Text(<<")", ":">>), Text(NL), Child(node, 1, indent + 1)>>)
              [] node.type = "class" ->
                    Format(<<ind, Text(<<"c", "l", "a", "s", "s", " ">>), Text(str(node.value)),
                             Text(<<":">>), Text(NL),
                             ind, Text(<<" ", " ", " ", " ", "d", "e", "f", " ", "_", "_", "i",
                                         "n", "i", "t", "_", "_", "(", "s", "e", "l", "f", ")",
                                         ":">>), Text(NL),
                             IF node.children = <<>> THEN Fault
                             ELSE GenerateFields(node.children[1].children, indent)>>)
              [] node.type = "output" ->
                    Format(<<ind, Text(<<"p", "r", "i", "n", "t", "(">>), Child(node, 0, 0),
                             Text(<<",", " ", "e", "n", "d", "=", "'">>),
                             Text(IF node.value = StrV(<<"e", "n", "d", "l">>)
                                  THEN <<"\\", "n">> ELSE <<>>),
                             Text(<<"'", ")">>), Text(NL)>>)
              [] node.type = "return" ->
                    Format(<<ind, Text(<<"r", "e", "t", "u", "r", "n", " ">>), Child(node, 0, 0),
                             Text(NL)>>)
              [] node.type = "binop" ->
                    Format(<<Child(node, 0, 0), Text(<<" ">>),
                             IF Str(str(node.value)) \in DOMAIN op_map
                             THEN Text(op_map[Str(str(node.value))]) ELSE Fault,
                             Text(<<" ">>), Child(node, 1, 0)>>)
              [] node.type = "unop" ->
                    Format(<<Text(<<"n", "o", "t", " ">>), Child(node, 0, 0)>>)
              [] node.type = "literal" -> Text(str(node.value))
              [] OTHER -> Text(<<>>)

\* for child in node.children: result += generate_code(child, indent)
GenerateEach(children, indent) ==
    IF children = <<>> THEN Text(<<>>)
    ELSE Format(<<generate_code(Head(children), indent), GenerateEach(Tail(children), indent)>>)

\* for decl in node.children[0].children: the field's line
GenerateFields(decls, indent) ==
    IF decls = <<>> THEN Text(<<>>)
    ELSE Format(<<Text(indent_str(indent)),
                  Text(<<" ", " ", " ", " ", " ", " ", " ", " ", "s", "e", "l", "f", ".">>),
                  Text(str(Head(decls).value)), Text(<<" ", "=", " ", "0">>), Text(NL),
                  GenerateFields(Tail(decls), indent)>>)

----------------------------------------------------------------------------
(* transpile                                                               *)

\* What a call gives its caller, and the module's objects after it: the
\* generated text, the diagnostic (error is the SyntaxError caught), or an
\* exception that transpile does not catch.
transpile(cpp_code, lx) ==
    With(parse(cpp_code, lexer_input(lx, cpp_code)), LAMBDA out :
       [lexer  |-> out.lexer,
        parser |-> [statestack |-> out.statestack, symstack |-> out.symstack],
        ast    |-> IF out.raised THEN NoneV ELSE out.value,
        result |-> IF out.raised
                   THEN [kind |-> "diagnostic", text |-> str(out.value.value),
                         error |-> out.value, shifted |-> out.shifted]
                   ELSE With(generate_code(out.value, 0), LAMBDA gen :
                           IF gen.fault
                           THEN [kind |-> "fault", text |-> <<>>,
                                 error |-> NoneV, shifted |-> out.shifted]
                           ELSE [kind |-> "generated", text |-> gen.text,
                                 error |-> NoneV, shifted |-> out.shifted])])

----------------------------------------------------------------------------
(* The module's objects and the calls                                      *)

\* lexer = lex.lex(): no text yet, at line 1.
InitLexer == [lexdata |-> <<>>, lexpos |-> 0, lineno |-> 1]

\* parser = yacc.yacc(): no parse yet.
InitParser == [statestack |-> <<>>, symstack |-> <<>>]

NoResult == [kind |-> "none", text |-> <<>>, error |-> NoneV, shifted |-> 0]

Init ==
    /\ lexer = InitLexer
    /\ parser = InitParser
    /\ ast = NoneV
    /\ result = NoResult
    /\ prev = "none"

\* The line counter is capped: a call that would take it past MaxLineno is
\* left out.
MaxLineno == 3

\* One call transpile(cpp_code).
Transpile(cpp_code) ==
    \E call \in {transpile(cpp_code, lexer)} :
       /\ call.lexer.lineno <= MaxLineno
       /\ lexer' = call.lexer
       /\ parser' = call.parser
       /\ ast' = call.ast
       /\ result' = call.result
       /\ prev' = result.kind

----------------------------------------------------------------------------
(* The texts the calls are made with                                       *)

\* An expression as it is written and as it is to be generated.
E(src, py) == [src |-> src, py |-> py]

NoExpr == E(<<>>, <<>>)

\* Calls that only change what a later call finds: a blank line, and a
\* character of no token.
Session == { <<"\n">>, <<"@">> }

Prefixes(text) == {SubSeq(text, 1, k) : k \in 0..Len(text)}

\* int x;
\* if (x) {y++;}
Small == <<"i", "n", "t", " ", "x", ";", "\n", "i", "f", " ", "(", "x", ")", " ", "{", "y", "+",
    "+", ";", "}">>

\* Programs with every kind of statement and every operator.
Programs ==
    { <<"x", " ", "=", " ", "!", "a", " ", "+", " ", "b", " ", "-", " ", "c", " ", "*", " ", "d",
        " ", "/", " ", "e", " ", "<", " ", "f", " ", ">", " ", "g", " ", "&", "&", " ", "h", " ",
        "|", "|", " ", "i", ";">>,
      <<"#", "i", "n", "c", "l", "u", "d", "e", " ", "<", "i", "o", "s", "t", "r", "e", "a", "m",
          ">", "\n", "i", "n", "t", " ", "f", "(", "i", "n", "t", " ", "a", ",", " ", "i", "n",
          "t", " ", "b", ")", " ", "{", " ", "r", "e", "t", "u", "r", "n", " ", "a", ";", " ",
          "}">>,
      <<"w", "h", "i", "l", "e", " ", "(", "a", ")", " ", "{", " ", "i", "f", " ", "(", "b", ")",
          " ", "{", " ", "x", " ", "=", " ", "1", ";", " ", "}", " ", "e", "l", "s", "e", " ",
          "{", " ", "c", "o", "u", "t", " ", "<", "<", " ", "x", " ", "<", "<", " ", "e", "n",
          "d", "l", ";", " ", "}", " ", "}">>,
      <<"f", "o", "r", " ", "(", "i", "n", "t", " ", "i", " ", "=", " ", "0", ";", " ", "i", " ",
          "<", " ", "3", ";", " ", "i", "+", "+", ")", " ", "{", " ", "c", "l", "a", "s", "s",
          " ", "C", " ", "{", " ", "i", "n", "t", " ", "q", ";", " ", "}", ";", " ", "}">> }

IncludeOnly == <<"#", "i", "n", "c", "l", "u", "d", "e", " ", "<", "i", "o", "s", "t", "r", "e",
    "a", "m", ">">>

\* A second type keyword where a name is expected, and further on a
\* character of no token.
ErrorThenIllegal == <<"i", "n", "t", " ", "i", "n", "t", " ", "@">>

Broken == { IncludeOnly, ErrorThenIllegal, <<"x", " ", "=", " ", ";">>, <<"i", "n", "t", " ",
    "x", " ", "=", " ", "5", "\n", "i", "n", "t", " ", "y", ";">> }

CallInputs ==
    Prefixes(Small) \cup {p \o <<"@">> : p \in Prefixes(Small)} \cup Programs \cup Broken

\* Scalar declarations: T x; and T x = e;
DeclCases ==
    [type : { <<"i", "n", "t">>, <<"f", "l", "o", "a", "t">> },
     name : { <<"x">> },
     init : { NoExpr, E(<<"5">>, <<"5">>), E(<<"2", ".", "5", "0">>, <<"2", ".", "5">>), E(<<"a",
         " ", "+", " ", "1">>, <<"a", " ", "+", " ", "1">>) }]

DeclText(c) ==
    c.type \o <<" ">> \o c.name
    \o (IF c.init = NoExpr THEN <<>> ELSE <<" ", "=", " ">> \o c.init.src) \o <<";">>

\* Output statements: cout << e1 [<< e2] [<< endl];
OutputCases ==
    [e1   : { E(<<"a">>, <<"a">>), E(<<"\"", "h", "i", "\"">>, <<"\"", "h", "i",
        "\"">>), E(<<"a", " ", "+", " ", "1">>, <<"a", " ", "+", " ", "1">>) },
     e2   : { NoExpr, E(<<"b">>, <<"b">>), E(<<"2">>, <<"2">>) },
     endl : BOOLEAN]

OutputText(c) ==
    <<"c", "o", "u", "t", " ", "<", "<", " ">> \o c.e1.src
    \o (IF c.e2 = NoExpr THEN <<>> ELSE <<" ", "<", "<", " ">> \o c.e2.src)
    \o (IF c.endl THEN <<" ", "<", "<", " ", "e", "n", "d", "l">> ELSE <<>>) \o <<";">>

\* Counted loops: for (int v = e1; l op r; v++) { cout << i << endl; }
ForCases ==
    [v  : { <<"i">> },
     e1 : { E(<<"0">>, <<"0">>), E(<<"a">>, <<"a">>) },
     l  : { <<"i">> },
     op : { <<"<">>, <<">">> },
     r  : { E(<<"5">>, <<"5">>), E(<<"n">>, <<"n">>), E(<<"n", " ", "+", " ", "1">>, <<"n", " ",
         "+", " ", "1">>) }]

ForText(c) ==
    <<"f", "o", "r", " ", "(", "i", "n", "t", " ">> \o c.v \o <<" ", "=",
        " ">> \o c.e1.src \o <<";", " ">> \o c.l \o <<" ">> \o c.op
    \o <<" ">> \o c.r.src \o <<";", " ">> \o c.v \o <<"+", "+", ")", " ", "{", " ", "c", "o",
        "u", "t", " ", "<", "<", " ", "i", " ", "<", "<", " ", "e", "n", "d", "l", ";", " ", "}">>

\* x = "a
\* b";
StringOverTwoLines == <<"x", " ", "=", " ", "\"", "a", "\n", "b", "\"", ";">>

\* Nested blocks.
Nested ==
    { <<"i", "f", " ", "(", "a", ")", " ", "{", " ", "w", "h", "i", "l", "e", " ", "(", "b", ")",
        " ", "{", " ", "x", "+", "+", ";", " ", "}", " ", "y", " ", "=", " ", "1", ";", " ", "}",
        " ", "e", "l", "s", "e", " ", "{", " ", "z", " ", "=", " ", "2", ";", " ", "}">>,
      <<"i", "n", "t", " ", "f", "(", "i", "n", "t", " ", "n", ")", " ", "{", " ", "f", "o", "r",
          " ", "(", "i", "n", "t", " ", "i", " ", "=", " ", "0", ";", " ", "i", " ", "<", " ",
          "n", ";", " ", "i", "+", "+", ")", " ", "{", " ", "c", "o", "u", "t", " ", "<", "<",
          " ", "i", ";", " ", "}", " ", "r", "e", "t", "u", "r", "n", " ", "n", ";", " ", "}">>,
      <<"i", "f", " ", "(", "a", ")", " ", "{", " ", "c", "l", "a", "s", "s", " ", "B", " ", "{",
          " ", "i", "n", "t", " ", "q", ";", " ", "}", ";", " ", "}">>,
      <<"c", "o", "u", "t", " ", "<", "<", " ", "\"", "a", " ", " ", "b", "\"", " ", "<", "<",
          " ", "e", "n", "d", "l", ";">>,
      StringOverTwoLines }

StmtInputs ==
    {DeclText(c) : c \in DeclCases} \cup {OutputText(c) : c \in OutputCases}
    \cup {ForText(c) : c \in ForCases} \cup Nested \cup Session

\* Expressions of one, two and three operands: x = a op b; x = a op b op c;
\* and the same with a negated first operand.
Operators == { <<"+">>, <<"-">>, <<"*">>, <<"/">>, <<"<">>, <<">">>, <<"&", "&">>, <<"|", "|">> }

ChainCases == [op1 : Operators, op2 : Operators]

ChainText(c) ==
    <<"x", " ", "=", " ", "a", " ">> \o c.op1 \o <<" ", "b", " ">> \o c.op2 \o <<" ", "c", ";">>

ExprInputs ==
    {ChainText(c) : c \in ChainCases}
    \cup {<<"x", " ", "=", " ", "a", " ">> \o op \o <<" ", "b", ";">> : op \in Operators}
    \cup {<<"x", " ", "=", " ", "!", "a", " ">> \o op \o <<" ", "b", ";">> : op \in Operators}
    \cup { <<"@">> }

\* Classes of 1..MaxFields fields, each field of one of the three accepted
\* forms, at the top level.
MaxFields == 2

FieldNames == << <<"x">>, <<"y">>, <<"z">>, <<"w">>, <<"u">> >>

\* Before and after a field's name.
FieldForms ==
    { [before |-> <<"i", "n", "t", " ">>, after |-> <<";">>],
      [before |-> <<"i", "n", "t", " ">>, after |-> <<" ", "=", " ", "3", ";">>],
      [before |-> <<"f", "l", "o", "a", "t", " ">>, after |-> <<" ", "=", " ", "2", ".", "5",
          ";">>] }

ClassCases == UNION {[1..n -> FieldForms] : n \in 1..MaxFields}

RECURSIVE FieldsText(_, _)
FieldsText(c, k) ==
    IF k > Len(c) THEN <<>>
    ELSE c[k].before \o FieldNames[k] \o c[k].after \o <<" ">> \o FieldsText(c, k + 1)

ClassText(c) == <<"c", "l", "a", "s", "s", " ", "A", " ", "{",
    " ">> \o FieldsText(c, 1) \o <<"}", ";">>

ClassInputs ==
    {ClassText(c) : c \in ClassCases}
    \cup { <<"c", "l", "a", "s", "s", " ", "A", " ", "{", " ", "}", ";">>, <<"c", "l", "a", "s",
        "s", " ", "A", " ", "{", " ", "f", "l", "o", "a", "t", " ", "x", ";", " ", "}",
        ";">>, <<"c", "l", "a", "s", "s", " ", "A", " ", "{", " ", "i", "n", "t", " ", "x", ";",
        " ", "i", "n", "t", " ", "x", ";", " ", "}", ";">>,
           <<"i", "f", " ", "(", "a", ")", " ", "{", " ", "c", "l", "a", "s", "s", " ", "A", " ",
               "{", " ", "i", "n", "t", " ", "x", " ", "=", " ", "3", ";", " ", "}", ";", " ",
               "}">> }
    \cup Session

----------------------------------------------------------------------------
(* The specifications: any sequence of calls, with texts of one family     *)

Next == \E cpp_code \in CallInputs : Transpile(cpp_code)

Spec == Init /\ [][Next]_vars

NextStmt == \E cpp_code \in StmtInputs : Transpile(cpp_code)

SpecStmt == Init /\ [][NextStmt]_vars

NextExpr == \E cpp_code \in ExprInputs : Transpile(cpp_code)

SpecExpr == Init /\ [][NextExpr]_vars

NextClass == \E cpp_code \in ClassInputs : Transpile(cpp_code)

SpecClass == Init /\ [][NextClass]_vars

----------------------------------------------------------------------------
(* Properties                                                              *)

EndsWith(text, suffix) ==
    /\ Len(suffix) <= Len(text)
    /\ SubSeq(text, Len(text) - Len(suffix) + 1, Len(text)) = suffix

\* The text of the last call: lexer.input stored it.
LastInput == lexer.lexdata

NewlinesBefore(d, pos) == Cardinality({k \in 1..pos : d[k] = "\n"})

\* C1: the line in the diagnostic of a failing call is 1 plus the number of
\* newlines of that call's own text before the offending character or
\* token, whatever the earlier calls were.
C1_LineOfOwnInput ==
    (result.kind = "diagnostic" /\ result.error.lexpos >= 0) =>
        EndsWith(result.text,
                 <<" ", "l", "i", "n", "e",
                     " ">> \o IntStr(1 + NewlinesBefore(LastInput, result.error.lexpos)))

\* What a freshly loaded module returns for the text.
Fresh(cpp_code) == transpile(cpp_code, InitLexer).result

\* C2: a text that a freshly loaded module translates is translated to the
\* same text after any sequence of earlier calls, failed ones included.
C2_SameAsFreshModule ==
    With(Fresh(LastInput), LAMBDA fresh :
       fresh.kind = "generated" =>
          /\ result.kind = "generated"
          /\ result.text = fresh.text)

\* A translation made after a failed call, with the line counter moved by
\* earlier calls.
C2_Witness ==
    /\ result.kind = "generated"
    /\ prev = "diagnostic"
    /\ lexer.lineno > 1

\* The number of children each kind of node has, and the operators of op_map.
RECURSIVE WellFormed(_)
WellFormed(node) ==
    LET n    == Len(node.children)
        kids == \A k \in 1..n : WellFormed(node.children[k])
        kind(k, types) == node.children[k].type \in types
        Statement == {"declaration", "assignment", "increment", "if", "for", "while",
                      "function", "class", "output", "return"}
        Expression == {"binop", "unop", "literal"}
    IN CASE node.type = "program" -> n = 1 /\ kind(1, {"statements"}) /\ kids
         [] node.type = "statements" -> n >= 1 /\ (\A k \in 1..n : kind(k, Statement)) /\ kids
         [] node.type = "declaration" -> n \in {0, 1} /\ (\A k \in 1..n : kind(k, Expression)) /\ kids
         [] node.type = "assignment" -> n = 1 /\ kind(1, Expression) /\ kids
         [] node.type = "increment" -> n = 0
         [] node.type = "if" ->
               /\ n \in {2, 3} /\ kind(1, Expression)
               /\ (\A k \in 2..n : kind(k, {"statements"})) /\ kids
         [] node.type = "for" ->
               n = 3 /\ kind(1, Expression) /\ kind(2, Expression) /\ kind(3, {"statements"}) /\ kids
         [] node.type = "while" -> n = 2 /\ kind(1, Expression) /\ kind(2, {"statements"}) /\ kids
         [] node.type = "function" -> n = 2 /\ kind(1, {"params"}) /\ kind(2, {"statements"}) /\ kids
         [] node.type = "params" -> (\A k \in 1..n : kind(k, {"param"})) /\ kids
         [] node.type = "param" -> n = 0
         [] node.type = "class" -> n = 1 /\ kind(1, {"declarations"}) /\ kids
         [] node.type = "declarations" -> n >= 1 /\ (\A k \in 1..n : kind(k, {"declaration"})) /\ kids
         [] node.type = "output" -> n = 1 /\ kind(1, Expression) /\ kids
         [] node.type = "return" -> n = 1 /\ kind(1, Expression) /\ kids
         [] node.type = "binop" ->
               /\ n = 2 /\ kind(1, Expression) /\ kind(2, Expression)
               /\ Str(str(node.value)) \in DOMAIN op_map /\ kids
         [] node.type = "unop" -> n = 1 /\ kind(1, Expression) /\ kids
         [] node.type = "literal" -> n = 0
         [] OTHER -> FALSE

UnexpectedEnd == <<"U", "n", "e", "x", "p", "e", "c", "t", "e", "d", " ", "e", "n", "d", " ",
    "o", "f", " ", "i", "n", "p", "u", "t">>

RECURSIVE LexicalPass(_)
LexicalPass(lx) ==
    With(token(lx), LAMBDA read :
       IF read.tok.type \in {"$end", "SyntaxError"} THEN read.tok ELSE LexicalPass(read.lexer))

\* C4: a text with a character of no token is answered with the lexical
\* diagnostic that names this character, whatever else is wrong in it.
C4_LexicalErrorFirst ==
    With(LexicalPass(lexer_input(InitLexer, LastInput)), LAMBDA scan :
       (result.kind # "none" /\ scan.type = "SyntaxError") =>
          /\ result.kind = "diagnostic"
          /\ StartsWith(result.text, 0,
                        <<"I", "l", "l", "e", "g", "a", "l", " ", "c", "h", "a", "r", "a", "c",
                            "t", "e", "r", " ", "'">> \o <<LastInput[scan.lexpos + 1]>> \o <<"'">>))

\* C5: a counted loop for (int v = e1; l op r; v++) is generated as an
\* iteration of v over the range from e1 to r, the right-hand operand of the
\* guard, with the body one level deeper.
C5_ForUpperBound ==
    \A c \in ForCases :
        LastInput = ForText(c) =>
            /\ result.kind = "generated"
            /\ result.text = <<"f", "o", "r", " ">> \o c.v \o <<" ", "i", "n", " ", "r", "a",
                "n", "g", "e", "(">> \o c.e1.py \o <<",", " ">> \o c.r.py
                             \o <<")", ":", "\n">> \o <<" ", " ", " ", " ", "p", "r", "i", "n",
                                 "t", "(", "i", ",", " ", "e", "n", "d", "=", "'", "\\", "n",
                                 "'", ")", "\n">>

\* C6: cout << e1; cout << e1 << e2; and both with << endl are translated
\* to a print of the expressions, whose end is a newline exactly when the
\* statement ends with endl.
C6_OutputShapes ==
    \A c \in OutputCases :
        LastInput = OutputText(c) =>
            /\ result.kind = "generated"
            /\ StartsWith(result.text, 0, <<"p", "r", "i", "n", "t", "(">> \o c.e1.py)
            /\ EndsWith(result.text,
                        IF c.endl THEN <<",", " ", "e", "n", "d", "=", "'", "\\", "n", "'", ")",
                            "\n">> ELSE <<",", " ", "e", "n", "d", "=", "'", "'", ")", "\n">>)

RECURSIVE FieldLines(_, _)
FieldLines(c, k) ==
    IF k > Len(c) THEN <<>>
    ELSE <<" ", " ", " ", " ", " ", " ", " ", " ", "s", "e", "l", "f",
        ".">> \o FieldNames[k] \o <<" ", "=", " ", "0", "\n">> \o FieldLines(c, k + 1)

\* C7: a class of n >= 1 fields, with or without initializers, is generated
\* as the class header, the initializer of self alone and n assignments of
\* 0, one per field in the order of declaration, and nothing else.
C7_ClassFieldsZero ==
    \A c \in ClassCases :
        LastInput = ClassText(c) =>
            /\ result.kind = "generated"
            /\ result.text = <<"c", "l", "a", "s", "s", " ", "A", ":", "\n">> \o <<" ", " ", " ",
                " ", "d", "e", "f", " ", "_", "_", "i", "n", "i", "t", "_", "_", "(", "s", "e",
                "l", "f", ")", ":", "\n">> \o FieldLines(c, 1)

\* A class of several fields, one of them with an initializer, translated
\* after earlier calls.
C7_Witness ==
    \E c \in ClassCases :
        /\ Len(c) >= 2
        /\ \E k \in 1..Len(c) : c[k].after # <<";">>
        /\ LastInput = ClassText(c)
        /\ result.kind = "generated"
        /\ prev # "none"

\* The level of an operator: multiplicative above additive, both above the
\* comparison and logical operators.
Level(op) ==
    IF op \in { <<"*">>, <<"/">> } THEN 2 ELSE IF op \in { <<"+">>, <<"-">> } THEN 1 ELSE 0

Literal(name) == Node("literal", <<>>, StrV(name))

Binop(op, left, right) == Node("binop", <<left, right>>, StrV(op))

\* The tree of a op1 b op2 c: grouped to the right when op2 binds tighter
\* than op1, to the left otherwise.
ChainTree(c) ==
    IF Level(c.op2) > Level(c.op1)
    THEN Binop(c.op1, Literal(<<"a">>), Binop(c.op2, Literal(<<"b">>), Literal(<<"c">>)))
    ELSE Binop(c.op2, Binop(c.op1, Literal(<<"a">>), Literal(<<"b">>)), Literal(<<"c">>))

\* The expression of the assignment that is the program's only statement.
AssignedExpression(tree) == tree.children[1].children[1].children[1]

\* C8: in the tree of a op1 b op2 c the tighter operator is applied first,
\* and operators of one level, the comparison and logical ones included,
\* are grouped to the left.
C8_Grouping ==
    \A c \in ChainCases :
        LastInput = ChainText(c) =>
            /\ ast # NoneV
            /\ AssignedExpression(ast) = ChainTree(c)

\* The nesting level of each line a node is to give, in order.
RECURSIVE Layout(_, _)
RECURSIVE LayoutEach(_, _)
Layout(node, level) ==
    CASE node.type \in {"program", "statements"} -> LayoutEach(node.children, level)
      [] node.type = "if" ->
            <<level>> \o Layout(node.children[2], level + 1)
            \o (IF Len(node.children) > 2
                THEN <<level>> \o Layout(node.children[3], level + 1) ELSE <<>>)
      [] node.type = "for" -> <<level>> \o Layout(node.children[3], level + 1)
      [] node.type \in {"while", "function"} -> <<level>> \o Layout(node.children[2], level + 1)
      [] node.type = "class" ->
            <<level, level + 1>> \o [k \in 1..Len(node.children[1].children) |-> level + 2]
      [] OTHER -> <<level>>

LayoutEach(nodes, level) ==
    IF nodes = <<>> THEN <<>> ELSE Layout(Head(nodes), level) \o LayoutEach(Tail(nodes), level)

\* The lines of a text, each with its newline (the last may have none).
RECURSIVE Lines(_)
Lines(text) ==
    LET nl == Find(text, 0, NL, AnyChar \ {"\n"})
    IN IF text = <<>> THEN <<>>
       ELSE IF nl < 0 THEN <<text>>
       ELSE <<SubSeq(text, 1, nl + 1)>> \o Lines(SubSeq(text, nl + 2, Len(text)))

\* C9: the generated text is the lines of the tree's statements, one after
\* the other: each ends with a newline and starts with four spaces per
\* nesting level of its statement and no more, so that no expression
\* brings a newline or an indentation of its own.
C9_Layout ==
    result.kind = "generated" =>
        LET lines  == Lines(result.text)
            levels == Layout(ast, 0)
        IN /\ Len(lines) = Len(levels)
           /\ \A k \in 1..Len(lines) :
                 /\ EndsWith(lines[k], NL)
                 /\ Span(lines[k], 0, {" "}) = 4 * levels[k]

\* C10: T x = e; is generated as x = e and T x; as x = 0, for T int and
\* for T float.
C10_ScalarDeclarations ==
    \A c \in DeclCases :
        LastInput = DeclText(c) =>
            /\ result.kind = "generated"
            /\ result.text = c.name \o <<" ", "=", " ">>
                             \o (IF c.init = NoExpr THEN <<"0">> ELSE c.init.py) \o NL

====
